---- MODULE Spec2Model ----
(***************************************************************************)
(* Storage/security engine of System-Ya-Mbogi: the GitHub-contents-backed  *)
(* document store (src/src/utils/githubStorage.js) and the bootstrap       *)
(* helpers (initStorage.js, src/unnamed/part_004).                         *)
(*                                                                         *)
(* Documents are records; a checksum is the canonical serialisation of the *)
(* document it was computed over (an injective stand-in for SHA-256 of     *)
(* JSON.stringify), the empty sequence standing for '' / no checksum.      *)
(* Times are hours.                                                        *)
(***************************************************************************)
EXTENDS Integers, Sequences, FiniteSets, TLC

VARIABLES
  store,    \* the repository: path -> document, for the paths that exist
  now,      \* Date.now(), in hours
  nextId,   \* the next value uuidv4() / the share-token generator hands out
  last,     \* what the last lifecycle operation was called with and returned
  file,     \* one path of the repository with its version token (sha)
  wr,       \* the concurrent writers to that path: where each one is
  cache,    \* initStorage's directoryCache entry fileInfo:{path}
  clock,    \* Date.now() in minutes, for the age of the cache entry
  read,     \* what the last read operation was and what it returned
  rateLimitCache,  \* SecurityManager: "ip:action" -> times of the recorded calls
  blacklistedIPs,  \* SecurityManager: the ips blacklisted in this process
  blacklist,       \* data/blacklist/ips.json
  malicious,       \* data/maliciousips/{ipHash}.json
  rtime,           \* Date.now() in half hours
  rate,            \* what the last rate-limit operation was and returned
  allowedLog,      \* per key, the allowed calls of the last window
  running,         \* RequestLimiter.running
  queue,           \* RequestLimiter.queue: the resolvers of the waiting calls
  woken,           \* the waiting calls whose resolver ran, in that order
  gpc,             \* where each runTask call is
  arrived,         \* the runTask calls in the order they were made
  started,         \* the runTask calls in the order their task started
  call,            \* the createDirectory calls of the clients
  cr,              \* the creations (async bodies) createDirectory started
  inProgress,      \* DirectoryManager.inProgress: path -> creation
  completed,       \* DirectoryManager.completed
  dirs,            \* the directories that exist in the repository
  markers,         \* per directory, the .gitkeep files created in it
  ens,             \* the ensureDirectoryExists call and its nested calls
  edirs,           \* the directories of the path data/1/2/.. that exist
  blobs,           \* the paths below data that hold a file
  del,             \* the deleteFolder call under way
  cf,              \* what the last createFolder call returned or threw
  repo,            \* the folder and share-link files, field by field
  ctime,           \* the wall clock in milliseconds
  shared,          \* what the last loadFolderByShareToken call returned
  df,              \* per client, its deleteFile call
  dfile,           \* the file deleteFile is called on, as the backend holds it
  ls,              \* localStorage: the password blob, its checksum, the preference, the device id
  pwres,           \* what the last PasswordManager call returned
  prompts,         \* the consent prompts shown since the preference was last cleared
  remote,          \* the folders and emails of the cached passwords that exist in the repository
  tried,           \* the entities killSwitch called the storage to delete
  form,            \* EmailForm: formData.attachments and error
  attached,        \* the attachment the last saveEmail call carried
  adm,             \* what the last createFolder call did up to its validation
  poll,            \* the createDirectory calls of the polling DirectoryManager: per client, its nested calls
  pInProgress,     \* the polling DirectoryManager.inProgress
  pCompleted,      \* the polling DirectoryManager.completed
  pdirs            \* the directories that exist when the polling variant runs

lifeVars == <<store, now, nextId, last>>
saveVars == <<file, wr, cache, clock>>
readVars == <<read>>
rateVars == <<rateLimitCache, blacklistedIPs, blacklist, malicious, rtime, rate, allowedLog>>

\* What the operations of one part leave alone: the other parts.
gateVars == <<running, queue, woken, gpc, arrived, started>>
dirVars == <<call, cr, inProgress, completed, dirs, markers>>
ensVars == <<ens, edirs, blobs>>
delVars == <<del>>
shareVars == <<cf, repo, ctime, shared>>
fileVars == <<df, dfile>>
pwVars == <<ls, pwres, prompts>>
killVars == <<remote, tried>>
attVars == <<form, attached>>
admVars == <<adm>>
pollVars == <<poll, pInProgress, pCompleted, pdirs>>

offLife == <<saveVars, readVars, rateVars, gateVars, dirVars, ensVars, delVars, shareVars, fileVars, pwVars, killVars, attVars, admVars, pollVars>>
offSave == <<lifeVars, readVars, rateVars, gateVars, dirVars, ensVars, delVars, shareVars, fileVars, pwVars, killVars, attVars, admVars, pollVars>>
offRead == <<now, nextId, last, saveVars, rateVars, gateVars, dirVars, ensVars, delVars, shareVars, fileVars, pwVars, killVars, attVars, admVars, pollVars>>
offRate == <<lifeVars, saveVars, readVars, gateVars, dirVars, ensVars, delVars, shareVars, fileVars, pwVars, killVars, attVars, admVars, pollVars>>
offGate == <<lifeVars, saveVars, readVars, rateVars, dirVars, ensVars, delVars, shareVars, fileVars, pwVars, killVars, attVars, admVars, pollVars>>
offDir == <<lifeVars, saveVars, readVars, rateVars, gateVars, ensVars, delVars, shareVars, fileVars, pwVars, killVars, attVars, admVars, pollVars>>
offEns == <<lifeVars, saveVars, readVars, rateVars, gateVars, dirVars, delVars, shareVars, fileVars, pwVars, killVars, attVars, admVars, pollVars>>
offDel == <<now, nextId, last, saveVars, readVars, rateVars, gateVars, dirVars, ensVars, shareVars, fileVars, pwVars, killVars, attVars, admVars, pollVars>>
offShare == <<lifeVars, saveVars, readVars, rateVars, gateVars, dirVars, ensVars, delVars, fileVars, pwVars, killVars, attVars, admVars, pollVars>>
offFile == <<lifeVars, saveVars, readVars, rateVars, gateVars, dirVars, ensVars, delVars, shareVars, pwVars, killVars, attVars, admVars, pollVars>>
offPw == <<lifeVars, saveVars, readVars, rateVars, gateVars, dirVars, ensVars, delVars, shareVars, fileVars, killVars, attVars, admVars, pollVars>>
offKill == <<lifeVars, saveVars, readVars, rateVars, gateVars, dirVars, ensVars, delVars, shareVars, fileVars, pwVars, attVars, admVars, pollVars>>

offPwKill == <<lifeVars, saveVars, readVars, rateVars, gateVars, dirVars, ensVars, delVars, shareVars, fileVars, attVars, admVars, pollVars>>
offAtt == <<lifeVars, saveVars, readVars, rateVars, gateVars, dirVars, ensVars, delVars, shareVars, fileVars, pwVars, killVars, admVars, pollVars>>

offLifeAtt == <<saveVars, readVars, rateVars, gateVars, dirVars, ensVars, delVars, shareVars, fileVars, pwVars, killVars, admVars, pollVars>>
offAdm == <<lifeVars, saveVars, readVars, rateVars, gateVars, dirVars, ensVars, delVars, shareVars, fileVars, pwVars, killVars, attVars, pollVars>>

offRateAdm == <<lifeVars, saveVars, readVars, gateVars, dirVars, ensVars, delVars, shareVars, fileVars, pwVars, killVars, attVars, pollVars>>
offPoll == <<lifeVars, saveVars, readVars, rateVars, gateVars, dirVars, ensVars, delVars, shareVars, fileVars, pwVars, killVars, attVars, admVars>>

vars == <<lifeVars, saveVars, readVars, rateVars, gateVars, dirVars, ensVars, delVars, shareVars, fileVars, pwVars, killVars, attVars, admVars, pollVars>>

----------------------------------------------------------------------------
(* Bounds of the model *)

MaxId == 4
MaxClock == 24
MaxEmails == 5

(* Program constants *)

TIME_TO_APPROVE == 24
MIN_INTERACTIONS == 5

FOLDER_STATUS_SILENT == "silent"
FOLDER_STATUS_ACTIVE == "active"
FOLDER_STATUS_FLAGGED == "flagged"

Passwords == {1, 2}
Salts == {1}
Names == {0, 1}          \* 0: the field is missing from the request

NoDate == 0 - 1          \* a createdAt that is undefined
NoChecksum == <<>>

----------------------------------------------------------------------------
(* SecurityManager *)

\* CryptoJS.PBKDF2(password, salt, fixed parameters): injective in both.
PBKDF2(password, salt) == password * 10 + salt

verifyPassword(password, storedHash, storedSalt) ==
  PBKDF2(password, storedSalt) = storedHash

KindCode(k) ==
  CASE k = "folder" -> 1 [] k = "email" -> 2 [] k = "version" -> 3
    [] k = "link" -> 4 [] OTHER -> 0

StatusCode(s) ==
  CASE s = FOLDER_STATUS_SILENT -> 1 [] s = FOLDER_STATUS_ACTIVE -> 2
    [] s = FOLDER_STATUS_FLAGGED -> 3 [] OTHER -> 0

\* SHA256(JSON.stringify(data)): every field of data, its checksum field
\* included as it stands.
generateChecksum(data) ==
  <<KindCode(data.kind), data.id, data.ref, data.orig, data.name,
    StatusCode(data.status), data.likes, data.createdAt, data.updatedAt,
    data.approvedAt, data.hash, data.salt, data.version>> \o data.checksum

----------------------------------------------------------------------------
(* Documents and paths *)

SilentPath(id) == <<"silent", id, 0>>        \* data/silent/folders/{id}.json
ActivePath(id) == <<"folders", id, 0>>       \* data/folders/{id}.json
EmailPath(fid, eid) == <<"emails", fid, eid>>     \* data/emails/{fid}/{eid}.json
VersionPath(fid, vid) == <<"versions", fid, vid>> \* data/emails/{fid}/versions/{vid}.json
LinkPath(token) == <<"links", token, 0>>     \* data/metadata/links/{token}.json

\* {...null}: no field set.
BlankDoc ==
  [kind |-> "folder", id |-> 0, ref |-> 0, orig |-> 0, name |-> 0, status |-> "",
   likes |-> 0, createdAt |-> NoDate, updatedAt |-> NoDate, approvedAt |-> NoDate,
   hash |-> 0, salt |-> 0, version |-> 0, checksum |-> NoChecksum]

WithChecksum(doc) == [doc EXCEPT !.checksum = generateChecksum(doc)]

folderMetadata(folderId, name, t, adminHash, adminSalt) ==
  WithChecksum([BlankDoc EXCEPT !.id = folderId, !.name = name, !.createdAt = t,
                !.updatedAt = t, !.status = FOLDER_STATUS_SILENT,
                !.hash = adminHash, !.salt = adminSalt, !.checksum = NoChecksum])

linkMetadata(token, folderId, name, t) ==
  [BlankDoc EXCEPT !.kind = "link", !.id = token, !.ref = folderId,
   !.name = name, !.createdAt = t]

emailMetadata(emailId, folderId, t, hash, salt) ==
  WithChecksum([BlankDoc EXCEPT !.kind = "email", !.id = emailId, !.ref = folderId,
                !.name = 1, !.createdAt = t, !.updatedAt = t, !.hash = hash,
                !.salt = salt, !.likes = 0, !.checksum = NoChecksum])

Put(s, p, d) == [q \in (DOMAIN s) \cup {p} |-> IF q = p THEN d ELSE s[q]]
Remove(s, P) == [q \in (DOMAIN s) \ P |-> s[q]]

\* loadData: null on 404, an error when the stored checksum is not that of
\* the document with its checksum cleared.
LoadData(s, p) ==
  IF p \notin DOMAIN s THEN [res |-> "null", doc |-> BlankDoc]
  ELSE IF /\ s[p].checksum # NoChecksum
          /\ s[p].checksum # generateChecksum([s[p] EXCEPT !.checksum = NoChecksum])
       THEN [res |-> "integrity", doc |-> BlankDoc]
       ELSE [res |-> "ok", doc |-> s[p]]

\* saveData's check of the document already at the path (l.985-991).
ExistingPassesSaveCheck(existingData) ==
  ~ (/\ existingData.checksum # NoChecksum
     /\ existingData.checksum # generateChecksum(existingData))

\* saveData with every backend request answered and no concurrent writer.
SaveData(s, p, d) ==
  IF p \in DOMAIN s /\ ~ExistingPassesSaveCheck(s[p])
  THEN [res |-> "integrity", store |-> s]
  ELSE [res |-> "ok", store |-> Put(s, p, d)]

\* deleteFile: a missing path is no error.
DeleteFile(s, p) == Remove(s, {p})

----------------------------------------------------------------------------
(* Listings *)

EmailPathsOf(s, fid) == {p \in DOMAIN s : p[1] = "emails" /\ p[2] = fid}
VersionPathsOf(s, fid) == {p \in DOMAIN s : p[1] = "versions" /\ p[2] = fid}
LinkPathsOf(s, fid) == {p \in DOMAIN s : p[1] = "links" /\ s[p].ref = fid}

RECURSIVE SumLikes(_, _)
SumLikes(s, P) ==
  IF P = {} THEN 0
  ELSE LET p == CHOOSE q \in P : TRUE IN s[p].likes + SumLikes(s, P \ {p})

\* loadEmails: the email files of the folder that load; one that fails to
\* load is logged and left out.
loadEmails(s, fid) == {p \in EmailPathsOf(s, fid) : LoadData(s, p).res = "ok"}

\* loadEmailVersions for every loaded email (Promise.all): the version files
\* of the folder are all loaded, one failure rejects the whole call.
VersionsLoad(s, fid) ==
  \A p \in VersionPathsOf(s, fid) : LoadData(s, p).res = "ok"

VersionsOfEmails(s, fid, emails) ==
  {p \in VersionPathsOf(s, fid) : \E e \in emails : s[p].orig = s[e].id}

\* getFolderInteractions: emails + likes + versions; an error while counting
\* is caught and what was counted so far is returned.
getFolderInteractions(s, fid) ==
  LET emails == loadEmails(s, fid)
      base == Cardinality(emails) + SumLikes(s, emails)
  IN IF emails = {} \/ ~VersionsLoad(s, fid) THEN base
     ELSE base + Cardinality(VersionsOfEmails(s, fid, emails))

----------------------------------------------------------------------------
(* Lifecycle operations, each run to completion against a store that       *)
(* answers every request.                                                  *)

Result(op, id, pw, res) == [op |-> op, id |-> id, pw |-> pw, res |-> res]

\* createFolder(folderData, ip), l.725-868
createFolder(name, pw, salt) ==
  /\ nextId + 1 <= MaxId
  /\ IF name = 0
     THEN /\ last' = Result("createFolder", 0, 0, "validation")
          /\ UNCHANGED <<store, nextId>>
     ELSE LET folderId == nextId
              token == nextId + 1
              meta == folderMetadata(folderId, name, now, PBKDF2(pw, salt), salt)
              link == linkMetadata(token, folderId, name, now)
          IN /\ store' = Put(Put(store, SilentPath(folderId), meta), LinkPath(token), link)
             /\ nextId' = nextId + 2
             /\ last' = Result("createFolder", folderId, 0, "ok")
  /\ UNCHANGED <<now, offLife>>

\* The document checkFolderApproval writes to the active path (l.1714-1719).
ApprovedFolder(silentFolder, t) ==
  [silentFolder EXCEPT !.status = FOLDER_STATUS_ACTIVE, !.approvedAt = t,
                       !.updatedAt = t]

\* l.1706-1712; a folder without createdAt has age NaN, which passes no test.
ApprovalDue(silentFolder, t, interactions) ==
  \/ (silentFolder.createdAt # NoDate /\ t - silentFolder.createdAt >= TIME_TO_APPROVE)
  \/ interactions >= MIN_INTERACTIONS

\* The body of checkFolderApproval(folderId), l.1697-1727: the store it
\* leaves and what it returns or throws.
Approval(s, folderId, t) ==
  LET r == LoadData(s, SilentPath(folderId)) IN
  IF r.res # "ok" THEN [res |-> r.res, store |-> s]
  ELSE IF ~ApprovalDue(r.doc, t, getFolderInteractions(s, folderId))
       THEN [res |-> "silent", store |-> s]
       ELSE LET sv == SaveData(s, ActivePath(folderId), ApprovedFolder(r.doc, t)) IN
            IF sv.res # "ok" THEN [res |-> sv.res, store |-> s]
            ELSE LET s2 == DeleteFile(sv.store, SilentPath(folderId))
                     r2 == LoadData(s2, ActivePath(folderId))
                 IN [res |-> IF r2.res = "ok" THEN "active" ELSE r2.res, store |-> s2]

checkFolderApproval(folderId) ==
  LET a == Approval(store, folderId, now) IN
  /\ store' = a.store
  /\ last' = Result("checkFolderApproval", folderId, 0, a.res)
  /\ UNCHANGED <<now, nextId, offLife>>

\* How the backend answers the requests of the move: every one, or the PUT
\* of saveData fails, or a request of deleteFile fails with another status
\* than 404.
ApprovalNets == {"ok", "putFails", "deleteFails"}

\* checkFolderApproval(folderId), l.1697-1727, with a backend that can fail
\* a request: saveData rethrows the error of its PUT (l.1040-1042), and
\* deleteFile rethrows every error but 404 (l.1840-1845).
ApprovalNet(s, folderId, t, net) ==
  LET r == LoadData(s, SilentPath(folderId)) IN
  IF r.res # "ok" THEN [res |-> r.res, store |-> s]
  ELSE IF ~ApprovalDue(r.doc, t, getFolderInteractions(s, folderId))
       THEN [res |-> "silent", store |-> s]
       ELSE LET sv == SaveData(s, ActivePath(folderId), ApprovedFolder(r.doc, t)) IN
            IF sv.res # "ok" THEN [res |-> sv.res, store |-> s]
            ELSE IF net = "putFails" THEN [res |-> "error", store |-> s]
            ELSE IF net = "deleteFails" THEN [res |-> "error", store |-> sv.store]
            ELSE Approval(s, folderId, t)

checkFolderApprovalNet(folderId, net) ==
  LET a == ApprovalNet(store, folderId, now, net) IN
  /\ store' = a.store
  /\ last' = Result("checkFolderApproval", folderId, 0, a.res)
  /\ UNCHANGED <<now, nextId, offLife>>

\* handleInteraction(folderId), l.1823-1828
handleInteraction(folderId) ==
  LET r == LoadData(store, SilentPath(folderId))
      a == Approval(store, folderId, now)
  IN /\ IF r.res = "ok" /\ r.doc.status = FOLDER_STATUS_SILENT
        THEN /\ store' = a.store
             /\ last' = Result("handleInteraction", folderId, 0, a.res)
        ELSE /\ UNCHANGED store
             /\ last' = Result("handleInteraction", folderId, 0,
                               IF r.res = "integrity" THEN "integrity" ELSE "nothing")
     /\ UNCHANGED <<now, nextId, offLife>>

\* forkFolder without the fresh id: the fork keeps the id of its source.
forkedFolder_KeepsId(folder, newId, folderId, t, hash, salt) ==
  [folder EXCEPT !.id = folderId, !.ref = folderId, !.hash = hash, !.salt = salt,
                 !.status = FOLDER_STATUS_SILENT]

\* The document forkFolder writes (l.1760-1768); folder is BlankDoc when the
\* source folder is not at the active path.
forkedFolder(folder, newId, folderId, t, hash, salt) ==
  [folder EXCEPT !.id = newId, !.ref = folderId, !.hash = hash, !.salt = salt,
                 !.status = FOLDER_STATUS_SILENT]

\* forkFolder(folderId, newOwnerPassword), l.1756-1779
forkFolder(folderId, pw, salt) ==
  /\ nextId <= MaxId
  /\ LET r == LoadData(store, ActivePath(folderId)) IN
     IF r.res = "integrity"
     THEN /\ last' = Result("forkFolder", folderId, 0, "integrity")
          /\ UNCHANGED <<store, nextId>>
     ELSE LET doc == forkedFolder(r.doc, nextId, folderId, now, PBKDF2(pw, salt), salt)
              sv == SaveData(store, SilentPath(doc.id), doc)
          IN /\ store' = sv.store
             /\ nextId' = nextId + 1
             /\ last' = Result("forkFolder", doc.id, 0, sv.res)
  /\ UNCHANGED <<now, offLife>>

SaveEmailFolderPath_Silent(folderId) == SilentPath(folderId)

\* The path saveEmail looks the folder up at, l.1094
SaveEmailFolderPath(folderId) == ActivePath(folderId)

\* saveEmail(folderId, emailData, ip), l.1089-1140
saveEmail(folderId, pw, salt) ==
  /\ nextId <= MaxId
  /\ LET r == LoadData(store, SaveEmailFolderPath(folderId)) IN
     IF r.res # "ok"
     THEN /\ last' = Result("saveEmail", folderId, 0,
                            IF r.res = "null" THEN "notfound" ELSE r.res)
          /\ UNCHANGED <<store, nextId>>
     ELSE LET email == emailMetadata(nextId, folderId, now, PBKDF2(pw, salt), salt)
              sv == SaveData(store, EmailPath(folderId, email.id), email)
          IN /\ store' = sv.store
             /\ nextId' = nextId + 1
             /\ last' = Result("saveEmail", folderId, 0, sv.res)
  /\ UNCHANGED <<now, offLife>>

\* The document updateEmailLikes builds (l.1339-1346): the checksum is taken
\* over the updated document with the loaded checksum still in it.
updatedEmail(email, action, t) ==
  LET u == [email EXCEPT !.likes = IF action = "increment" THEN email.likes + 1
                                   ELSE IF email.likes - 1 > 0 THEN email.likes - 1 ELSE 0,
                         !.updatedAt = t]
  IN [u EXCEPT !.checksum = generateChecksum(u)]

\* updateEmailLikes(folderId, emailId, action), l.1331-1350
updateEmailLikes(folderId, emailId, action) ==
  /\ LET p == EmailPath(folderId, emailId)
         r == LoadData(store, p)
     IN IF r.res # "ok"
        THEN /\ last' = Result("updateEmailLikes", emailId, 0,
                               IF r.res = "null" THEN "notfound" ELSE r.res)
             /\ UNCHANGED store
        ELSE LET sv == SaveData(store, p, updatedEmail(r.doc, action, now)) IN
             /\ store' = sv.store
             /\ last' = Result("updateEmailLikes", emailId, 0, sv.res)
  /\ UNCHANGED <<now, nextId, offLife>>

\* The document createEmailVersion builds (l.1599-1611).
emailVersion(originalEmail, versionId, t) ==
  LET v == [originalEmail EXCEPT !.kind = "version", !.id = versionId,
                                 !.orig = originalEmail.id, !.createdAt = t,
                                 !.updatedAt = t,
                                 !.version = (IF originalEmail.version = 0 THEN 1
                                              ELSE originalEmail.version) + 1,
                                 !.likes = 0]
  IN [v EXCEPT !.checksum = generateChecksum(v)]

\* createEmailVersion(folderId, emailId, modifications), l.1592-1619
createEmailVersion(folderId, emailId) ==
  /\ nextId <= MaxId
  /\ LET r == LoadData(store, EmailPath(folderId, emailId)) IN
     IF r.res # "ok"
     THEN /\ last' = Result("createEmailVersion", emailId, 0,
                            IF r.res = "null" THEN "notfound" ELSE r.res)
          /\ UNCHANGED <<store, nextId>>
     ELSE LET v == emailVersion(r.doc, nextId, now)
              sv == SaveData(store, VersionPath(folderId, v.id), v)
          IN /\ store' = sv.store
             /\ nextId' = nextId + 1
             /\ last' = Result("createEmailVersion", emailId, 0, sv.res)
  /\ UNCHANGED <<now, offLife>>

\* data/countries/{code}/{folderId}/versions/{vid}.json, for one country
CountryVersionPath(fid, vid) == <<"cversions", fid, vid>>

\* loadCountryFolderVersions(countryCode, folderId), l.1396-1432: the
\* versions that load; nothing when the listing fails (l.1428-1431).
loadCountryFolderVersions(s, folderId, net) ==
  IF net # "answer" THEN {}
  ELSE {p \in DOMAIN s : p[1] = "cversions" /\ p[2] = folderId /\ LoadData(s, p).res = "ok"}

\* The document createCountryFolderVersion builds (l.1442-1455).
versionData(versionId, versionNumber, t) ==
  WithChecksum([BlankDoc EXCEPT !.kind = "cversion", !.id = versionId,
                !.version = versionNumber, !.createdAt = t, !.updatedAt = t,
                !.likes = 0, !.checksum = NoChecksum])

\* createCountryFolderVersion(countryCode, folderId, emails), l.1433-1468, on
\* a country folder whose versions directory is in place.
createCountryFolderVersion(folderId, net) ==
  /\ nextId <= MaxId
  /\ LET existingVersions == loadCountryFolderVersions(store, folderId, net)
         v == versionData(nextId, Cardinality(existingVersions) + 1, now)
         sv == SaveData(store, CountryVersionPath(folderId, v.id), v)
     IN /\ store' = sv.store
        /\ nextId' = nextId + 1
        /\ last' = Result("createCountryFolderVersion", v.id, 0, sv.res)
  /\ UNCHANGED <<now, offLife>>

\* What deleteFolder removes once the password is accepted (l.1216-1258):
\* the email and version files of the folder, the folder document, and the
\* share links that name the folder.
FolderContents(s, folderId, folderPath) ==
  EmailPathsOf(s, folderId) \cup VersionPathsOf(s, folderId) \cup {folderPath}
    \cup LinkPathsOf(s, folderId)

\* deleteFolder with the password verified only after the contents are gone.
DeleteFolderOutcome_VerifiesLate(s, folderId, adminPassword) ==
  LET rs == LoadData(s, SilentPath(folderId))
      ra == LoadData(s, ActivePath(folderId))
      r == IF rs.res = "null" THEN ra ELSE rs
      folderPath == IF rs.res = "null" THEN ActivePath(folderId) ELSE SilentPath(folderId)
  IN IF r.res = "integrity" THEN [res |-> "integrity", store |-> s]
     ELSE IF r.res = "null" THEN [res |-> "notfound", store |-> s]
     ELSE IF ~verifyPassword(adminPassword, r.doc.hash, r.doc.salt)
          THEN [res |-> "unauthorized",
                store |-> Remove(s, EmailPathsOf(s, folderId) \cup VersionPathsOf(s, folderId))]
          ELSE [res |-> "ok", store |-> Remove(s, FolderContents(s, folderId, folderPath))]

\* deleteFolder(folderId, adminPassword), l.1167-1272
DeleteFolderOutcome(s, folderId, adminPassword) ==
  LET rs == LoadData(s, SilentPath(folderId))
      ra == LoadData(s, ActivePath(folderId))
      r == IF rs.res = "null" THEN ra ELSE rs
      folderPath == IF rs.res = "null" THEN ActivePath(folderId) ELSE SilentPath(folderId)
  IN IF r.res = "integrity" THEN [res |-> "integrity", store |-> s]
     ELSE IF r.res = "null" THEN [res |-> "notfound", store |-> s]
     ELSE IF ~verifyPassword(adminPassword, r.doc.hash, r.doc.salt)
          THEN [res |-> "unauthorized", store |-> s]
          ELSE [res |-> "ok", store |-> Remove(s, FolderContents(s, folderId, folderPath))]

deleteFolder(folderId, adminPassword) ==
  LET o == DeleteFolderOutcome(store, folderId, adminPassword) IN
  /\ store' = o.store
  /\ last' = Result("deleteFolder", folderId, adminPassword, o.res)
  /\ UNCHANGED <<now, nextId, offLife>>

\* deleteContent(path, password), l.1782-1820, without admin override
DeleteContentOutcome(s, path, password) ==
  LET r == LoadData(s, path) IN
  IF r.res = "integrity" THEN [res |-> "integrity", store |-> s]
  ELSE IF r.res = "null" THEN [res |-> "notfound", store |-> s]
  ELSE IF ~verifyPassword(password, r.doc.hash, r.doc.salt)
       THEN [res |-> "unauthorized", store |-> s]
       ELSE [res |-> "ok", store |-> Remove(s, {path})]

deleteContent(path, password) ==
  LET o == DeleteContentOutcome(store, path, password) IN
  /\ store' = o.store
  /\ last' = Result("deleteContent", path[3], password, o.res)
  /\ UNCHANGED <<now, nextId, offLife>>

\* Time passes, half an approval period at a time.
ClockStep == TIME_TO_APPROVE \div 2

Tick ==
  /\ now + ClockStep <= MaxClock
  /\ now' = now + ClockStep
  /\ UNCHANGED <<store, nextId, last, offLife>>

EmptyStore == [p \in {} |-> BlankDoc]

NoRead == [op |-> "none", res |-> "none", docs |-> {}]
ReadIdle == read = NoRead

SeedEmailId(i) == 100 + i

RECURSIVE WithEmails(_, _)
WithEmails(s, n) ==
  IF n = 0 THEN s
  ELSE Put(WithEmails(s, n - 1), EmailPath(1, SeedEmailId(n)),
           emailMetadata(SeedEmailId(n), 1, 0, PBKDF2(1, 1), 1))

----------------------------------------------------------------------------
(* Concurrent writers to one path.  Every await on a backend request is a  *)
(* step; a request is answered, or times out before reaching the backend   *)
(* ("lost"), or times out after the backend applied it ("landed").         *)

Writers == {1, 2}

RETRIES == 3               \* saveData: let retries = 3
WRITE_MAX_RETRIES == 2     \* writeFile(path, content, maxRetries = 2)
INFO_MAX_RETRIES == 2      \* getFileInfo(path, maxRetries = 2)
PLAIN_MAX_RETRIES == 3     \* the initStorage.js without cache: maxRetries = 3
FILE_CACHE_DURATION == 5   \* minutes
MaxMinutes == 5

NoSha == 0

IdleWriter ==
  [op |-> "none", pc |-> "idle", act |-> "", sha |-> NoSha, data |-> BlankDoc,
   retries |-> 0, attempt |-> 0, gtry |-> 0, res |-> "none", puts |-> 0,
   putTimeouts |-> 0, conflicts |-> 0, refused |-> NoSha, resent |-> FALSE]

NoFile == [exists |-> FALSE, sha |-> NoSha, doc |-> BlankDoc]
NoCache == [valid |-> FALSE, exists |-> FALSE, sha |-> NoSha, time |-> 0]

SaveIdle ==
  /\ file = NoFile
  /\ wr = [w \in Writers |-> IdleWriter]
  /\ cache = NoCache
  /\ clock = 0

\* A document without checksum field (a share link, the blacklist), as
\* writer w would store it.
WriterDoc(w) == [BlankDoc EXCEPT !.kind = "plain", !.id = w]

StoredPlain == [exists |-> TRUE, sha |-> 1, doc |-> [BlankDoc EXCEPT !.kind = "plain"]]
StoredEmail ==
  [exists |-> TRUE, sha |-> 1, doc |-> emailMetadata(SeedEmailId(1), 1, 0, PBKDF2(1, 1), 1)]

\* PUT /contents/{path} with {content, sha?}: creates a missing file; for an
\* existing file the sha is required (422 without) and must be the current
\* one (409 otherwise).
BackendPut(f, sentSha, data) ==
  IF ~f.exists \/ (sentSha # NoSha /\ sentSha = f.sha)
  THEN [status |-> "ok", file |-> [exists |-> TRUE, sha |-> f.sha + 1, doc |-> data]]
  ELSE [status |-> IF sentSha = NoSha THEN "422" ELSE "409", file |-> f]

\* What the client sees and what the backend holds after a PUT.
PutStatus(b, net) == IF net = "answer" THEN b.status ELSE "timeout"
PutFile(b, net) == IF net = "lost" THEN file ELSE b.file

ErrorName(status) ==
  CASE status = "409" -> "conflict" [] status = "422" -> "unprocessable"
    [] OTHER -> "timeout"

Done(w, res) == [wr[w] EXCEPT !.pc = "done", !.res = res]

StartSaveData(w) ==
  /\ UNCHANGED offSave
  /\ wr[w].pc = "idle"
  /\ wr' = [wr EXCEPT ![w] = [@ EXCEPT !.op = "saveData", !.pc = "sd_get",
                                       !.data = WriterDoc(w)]]
  /\ UNCHANGED <<file, cache, clock>>

StartUpdateEmailLikes(w, action) ==
  /\ UNCHANGED offSave
  /\ wr[w].pc = "idle"
  /\ wr' = [wr EXCEPT ![w] = [@ EXCEPT !.op = "updateEmailLikes", !.pc = "ul_load",
                                       !.act = action]]
  /\ UNCHANGED <<file, cache, clock>>

\* initStorage.js exists in three copies: two keep getFileInfo's answers in
\* directoryCache ("writeFile"), one asks the backend every time
\* ("writeFilePlain").
WriteFileOps == {"writeFile", "writeFilePlain"}

MaxRetriesOf(op) == IF op = "writeFile" THEN WRITE_MAX_RETRIES ELSE PLAIN_MAX_RETRIES
InfoRetriesOf(op) == IF op = "writeFile" THEN INFO_MAX_RETRIES ELSE PLAIN_MAX_RETRIES

StartWriteFile(w, op) ==
  /\ UNCHANGED offSave
  /\ wr[w].pc = "idle"
  /\ wr' = [wr EXCEPT ![w] = [@ EXCEPT !.op = op, !.pc = "wf_info",
                                       !.data = WriterDoc(w)]]
  /\ UNCHANGED <<file, cache, clock>>

\* updateEmailLikes l.1333-1346: loadData, then the updated document.
LoadEmail(w, net) ==
  /\ UNCHANGED offSave
  /\ wr[w].pc = "ul_load"
  /\ wr' = [wr EXCEPT ![w] =
       IF net # "answer" THEN Done(w, "timeout")
       ELSE IF ~file.exists THEN Done(w, "notfound")
       ELSE IF /\ file.doc.checksum # NoChecksum
               /\ file.doc.checksum # generateChecksum([file.doc EXCEPT !.checksum = NoChecksum])
            THEN Done(w, "integrity")
            ELSE [@ EXCEPT !.pc = "sd_get",
                           !.data = updatedEmail(file.doc, wr[w].act, now)]]
  /\ UNCHANGED <<file, cache, clock>>

\* saveData l.976-998: the GET of the existing file.
SaveDataGet(w, net) ==
  /\ UNCHANGED offSave
  /\ wr[w].pc = "sd_get"
  /\ wr' = [wr EXCEPT ![w] =
       IF net # "answer" THEN Done(w, "timeout")
       ELSE IF ~file.exists THEN [@ EXCEPT !.pc = "sd_put", !.sha = NoSha, !.retries = RETRIES]
       ELSE IF ~ExistingPassesSaveCheck(file.doc)
            THEN [Done(w, "integrity") EXCEPT !.sha = file.sha]
            ELSE [@ EXCEPT !.pc = "sd_put", !.sha = file.sha, !.retries = RETRIES]]
  /\ UNCHANGED <<file, cache, clock>>

\* saveData l.1029-1040: the attempts left after a failed PUT; none after 409.
SaveDataRetriesLeft_Retries409(status, retries) == retries - 1

SaveDataRetriesLeft_NeverRetries(status, retries) == 0

SaveDataRetriesLeft(status, retries) ==
  IF status = "409" THEN 0 ELSE retries - 1

\* saveData l.1018-1045: one PUT of the retry loop.
SaveDataPut(w, net) ==
  /\ UNCHANGED offSave
  /\ wr[w].pc = "sd_put"
  /\ LET b == BackendPut(file, wr[w].sha, wr[w].data)
         status == PutStatus(b, net)
         left == SaveDataRetriesLeft(status, wr[w].retries)
         sent == [wr[w] EXCEPT !.puts = @ + 1,
                               !.resent = @ \/ (wr[w].refused # NoSha /\ wr[w].sha = wr[w].refused),
                               !.putTimeouts = IF status = "timeout" THEN @ + 1 ELSE @,
                               !.conflicts = IF status = "409" THEN @ + 1 ELSE @,
                               !.refused = IF status = "409" THEN wr[w].sha ELSE @]
     IN /\ file' = PutFile(b, net)
        /\ wr' = [wr EXCEPT ![w] =
             IF status = "ok" THEN [sent EXCEPT !.pc = "done", !.res = "ok"]
             ELSE IF left > 0 THEN [sent EXCEPT !.retries = left]
             ELSE [sent EXCEPT !.pc = "done", !.res = ErrorName(status), !.retries = left]]
  /\ UNCHANGED <<cache, clock>>

CacheHit == cache.valid /\ clock - cache.time < FILE_CACHE_DURATION

\* getFileInfo (initStorage.js l.48-88, and l.521-538 without the cache) as
\* called by writeFile.
GetFileInfo(w, net) ==
  /\ UNCHANGED offSave
  /\ wr[w].pc = "wf_info"
  /\ IF wr[w].op = "writeFile" /\ CacheHit
     THEN /\ net = "answer"
          /\ wr' = [wr EXCEPT ![w] = [@ EXCEPT !.pc = "wf_put", !.sha = cache.sha, !.gtry = 0]]
          /\ UNCHANGED cache
     ELSE IF net = "answer"
          THEN /\ cache' = IF wr[w].op = "writeFile"
                            THEN [valid |-> TRUE, exists |-> file.exists,
                                  sha |-> IF file.exists THEN file.sha ELSE NoSha,
                                  time |-> clock]
                            ELSE cache
               /\ wr' = [wr EXCEPT ![w] = [@ EXCEPT !.pc = "wf_put", !.gtry = 0,
                                           !.sha = IF file.exists THEN file.sha ELSE NoSha]]
          ELSE /\ wr' = [wr EXCEPT ![w] =
                    IF wr[w].gtry = InfoRetriesOf(wr[w].op) - 1 THEN Done(w, "timeout")
                    ELSE [@ EXCEPT !.gtry = @ + 1]]
               /\ UNCHANGED cache
  /\ UNCHANGED <<file, clock>>

\* writeFile (initStorage.js l.105-126, and l.557-574 without the cache):
\* the PUT and what follows it.
WriteFilePut(w, net) ==
  /\ UNCHANGED offSave
  /\ wr[w].pc = "wf_put"
  /\ LET b == BackendPut(file, wr[w].sha, wr[w].data)
         status == PutStatus(b, net)
         sent == [wr[w] EXCEPT !.puts = @ + 1,
                               !.resent = @ \/ (wr[w].refused # NoSha /\ wr[w].sha = wr[w].refused),
                               !.putTimeouts = IF status = "timeout" THEN @ + 1 ELSE @,
                               !.conflicts = IF status = "409" THEN @ + 1 ELSE @,
                               !.refused = IF status = "409" THEN wr[w].sha ELSE @]
     IN /\ file' = PutFile(b, net)
        /\ cache' = IF status = "ok" /\ wr[w].op = "writeFile" THEN NoCache ELSE cache
        /\ wr' = [wr EXCEPT ![w] =
             IF status = "ok" THEN [sent EXCEPT !.pc = "done", !.res = "ok"]
             ELSE IF status = "409" /\ wr[w].attempt < MaxRetriesOf(wr[w].op) - 1
                  THEN [sent EXCEPT !.pc = "wf_info", !.attempt = @ + 1]
                  ELSE [sent EXCEPT !.pc = "done", !.res = ErrorName(status)]]
  /\ UNCHANGED clock

\* The lifetime of a cache entry passes.
CachePeriodPasses ==
  /\ UNCHANGED offSave
  /\ clock + FILE_CACHE_DURATION <= MaxMinutes
  /\ clock' = clock + FILE_CACHE_DURATION
  /\ UNCHANGED <<file, wr, cache>>

Net == {"answer", "lost", "landed"}
GetNet == {"answer", "lost"}

----------------------------------------------------------------------------
(* Rate limiting and the blacklist.  Times are half hours.                 *)

IPs == {1}
Actions == {"CREATE_FOLDER"}

\* RATE_LIMITS, l.6-12: CREATE_FOLDER: { max: 5, window: 3600000 }
RATE_LIMITS == [a \in Actions |-> [max |-> 5, window |-> 2]]

REPORTS_THRESHOLD == 3
TIME_WINDOW == 336         \* 7 days

MaxLongTicks == 1          \* times a week passes at once
MaxReports == 3            \* pending reports kept for one ip

\* CryptoJS.SHA256(ip)
IpHash(ip) == 100 + ip

Key(ip, action) == <<ip, action>>
Keys == {Key(ip, a) : ip \in IPs, a \in Actions}

NoCalls == [k \in {} |-> <<>>]
EmptyBlacklist == [ips |-> {}, pendingReports |-> [ip \in IPs |-> <<>>]]
NoFlags == [h \in {} |-> 0]
NoRate == [op |-> "none", ip |-> 0, res |-> "none"]

RateIdle ==
  /\ rateLimitCache = NoCalls
  /\ blacklistedIPs = {}
  /\ blacklist = EmptyBlacklist
  /\ malicious = NoFlags
  /\ rtime = 0
  /\ rate = NoRate
  /\ allowedLog = [k \in Keys |-> <<>>]

RateResult(op, ip, res) == [op |-> op, ip |-> ip, res |-> res]

\* requests.filter(time => now - time < limit.window), l.162
RecentRequests_Inclusive(requests, t, window) ==
  SelectSeq(requests, LAMBDA time : t - time <= window)

RecentRequests(requests, t, window) ==
  SelectSeq(requests, LAMBDA time : t - time < window)

Requests(k) == IF k \in DOMAIN rateLimitCache THEN rateLimitCache[k] ELSE <<>>

SetKey(c, k, v) == [q \in (DOMAIN c) \cup {k} |-> IF q = k THEN v ELSE c[q]]

\* SecurityManager.checkRateLimit(ip, action), l.148-172.  SecurityManager
\* has no method flagSuspiciousIP (it is GitHubStorage's, l.1980), so the
\* call at l.165 throws a TypeError.
CheckRateLimit(ip, action) ==
  /\ LET key == Key(ip, action)
         limit == RATE_LIMITS[action]
         recentRequests == RecentRequests(Requests(key), rtime, limit.window)
     IN IF ip \in blacklistedIPs
        THEN /\ rate' = RateResult("checkRateLimit", ip, "false")
             /\ UNCHANGED <<rateLimitCache, allowedLog>>
        ELSE IF Len(recentRequests) >= limit.max
        THEN /\ rate' = RateResult("checkRateLimit", ip, "TypeError")
             /\ rateLimitCache' = SetKey(rateLimitCache, key, Requests(key))
             /\ UNCHANGED allowedLog
        ELSE /\ rate' = RateResult("checkRateLimit", ip, "true")
             /\ rateLimitCache' = SetKey(rateLimitCache, key, Append(recentRequests, rtime))
             /\ allowedLog' = [allowedLog EXCEPT ![key] = Append(@, rtime)]
  /\ UNCHANGED <<blacklistedIPs, blacklist, malicious, rtime>>

checkRateLimit(ip, action) ==
  /\ CheckRateLimit(ip, action)
  /\ UNCHANGED offRate

NoAdmission == [ip |-> 0, res |-> "none"]

AdmIdle == adm = NoAdmission

\* createFolder(folderData, ip) up to the validation of its input,
\* l.740-783: the rate limit is checked first (l.741), the input after the
\* password is generated (l.781-783).  name and targetEmail 0: missing.
createFolderEntry(ip, name, targetEmail) ==
  /\ CheckRateLimit(ip, "CREATE_FOLDER")
  /\ adm' = [ip |-> ip,
             res |-> IF rate'.res # "true" THEN "ratelimit"
                     ELSE IF name = 0 \/ targetEmail = 0 THEN "validation"
                     ELSE "valid"]
  /\ UNCHANGED offRateAdm

\* GitHubStorage.flagSuspiciousIP(ip, action), l.1980-1993, called on the
\* storage object.
flagSuspiciousIP(ip, action) ==
  /\ IF Key(ip, action) \in DOMAIN rateLimitCache
     THEN /\ malicious' = SetKey(malicious, IpHash(ip), Len(rateLimitCache[Key(ip, action)]))
          /\ rate' = RateResult("flagSuspiciousIP", ip, "ok")
     ELSE /\ rate' = RateResult("flagSuspiciousIP", ip, "TypeError")
          /\ UNCHANGED malicious
  /\ UNCHANGED <<rateLimitCache, blacklistedIPs, blacklist, rtime, allowedLog, offRate>>

\* recentReports, l.1930-1933
RecentReports(reports, t) == SelectSeq(reports, LAMBDA ts : t - ts <= TIME_WINDOW)

\* GitHubStorage.addToBlacklist(ip, evidence), l.1908-1954
addToBlacklist(ip) ==
  /\ Len(blacklist.pendingReports[ip]) < MaxReports
  /\ LET ipHash == IpHash(ip)
         reports == Append(blacklist.pendingReports[ip], rtime)
         recentReports == RecentReports(reports, rtime)
     IN IF Len(recentReports) >= REPORTS_THRESHOLD /\ ipHash \notin blacklist.ips
        THEN /\ blacklist' = [ips |-> blacklist.ips \cup {ipHash},
                              pendingReports |-> [blacklist.pendingReports EXCEPT ![ip] = <<>>]]
             /\ blacklistedIPs' = blacklistedIPs \cup {ip}
        ELSE /\ blacklist' = [blacklist EXCEPT !.pendingReports[ip] = reports]
             /\ UNCHANGED blacklistedIPs
  /\ rate' = RateResult("addToBlacklist", ip, "ok")
  /\ UNCHANGED <<rateLimitCache, malicious, rtime, allowedLog, offRate>>

\* The allowed calls of key k that lie within its window at time t.
InWindow(log, k, t) ==
  SelectSeq(log[k], LAMBDA time : t - time < RATE_LIMITS[k[2]].window)

LongStep == TIME_WINDOW + 1

Passes(d) ==
  /\ rtime' = rtime + d
  /\ allowedLog' = [k \in Keys |-> InWindow(allowedLog, k, rtime + d)]
  /\ UNCHANGED <<rateLimitCache, blacklistedIPs, blacklist, malicious, rate, offRate>>

\* Half hours pass one by one until the rate window has gone by.
TickRate ==
  /\ \E a \in Actions : rtime % LongStep < RATE_LIMITS[a].window
  /\ Passes(1)

LongTick ==
  /\ rtime \div LongStep < MaxLongTicks
  /\ Passes(LongStep)

\* The page is loaded again: a new SecurityManager (constructor, l.31-34)
\* over the same repository.
Restart ==
  /\ rateLimitCache' = NoCalls
  /\ blacklistedIPs' = {}
  /\ allowedLog' = [k \in Keys |-> <<>>]
  /\ rate' = RateResult("restart", 0, "ok")
  /\ UNCHANGED <<blacklist, malicious, rtime, offRate>>

----------------------------------------------------------------------------
(* RequestLimiter (initStorage.js).  A step is what runs between two       *)
(* awaits: a call up to its first await, the continuation of a call whose  *)
(* resolver ran, the finally block after a task.                           *)

maxConcurrent == 3         \* new RequestLimiter(3)
MaxTasks == 5

Tasks == 1..MaxTasks

GateIdle ==
  /\ running = 0
  /\ queue = <<>>
  /\ woken = <<>>
  /\ gpc = [t \in Tasks |-> "idle"]
  /\ arrived = <<>>
  /\ started = <<>>

\* runTask(task), l.27-31, up to the await of the queue promise or, with a
\* free slot, up to the await of task().
runTask(t) ==
  /\ gpc[t] = "idle"
  /\ arrived' = Append(arrived, t)
  /\ IF running >= maxConcurrent
     THEN /\ queue' = Append(queue, t)
          /\ gpc' = [gpc EXCEPT ![t] = "waiting"]
          /\ UNCHANGED <<running, started>>
     ELSE /\ running' = running + 1
          /\ gpc' = [gpc EXCEPT ![t] = "running"]
          /\ started' = Append(started, t)
          /\ UNCHANGED queue
  /\ UNCHANGED <<woken, offGate>>

\* runTask after the await of the queue promise, l.31-34: the continuations
\* of resolved promises run in the order the promises were resolved.
Resume(t) ==
  /\ woken # <<>> /\ t = Head(woken)
  /\ woken' = Tail(woken)
  /\ running' = running + 1
  /\ gpc' = [gpc EXCEPT ![t] = "running"]
  /\ started' = Append(started, t)
  /\ UNCHANGED <<queue, arrived, offGate>>

Releases_OnlyOnSuccess(outcome) == outcome = "done"

\* try { return await task() } finally { .. }, l.33-41: the finally block
\* runs whether task() resolved ("done") or rejected ("failed").
Releases(outcome) == TRUE

\* task() settles and the finally block runs, l.35-41.
Settle(t, outcome) ==
  /\ gpc[t] = "running"
  /\ IF ~Releases(outcome)
     THEN /\ gpc' = [gpc EXCEPT ![t] = outcome]
          /\ UNCHANGED <<running, queue, woken>>
     ELSE /\ running' = running - 1
          /\ IF Len(queue) > 0
             THEN /\ queue' = Tail(queue)
                  /\ woken' = Append(woken, Head(queue))
                  /\ gpc' = [gpc EXCEPT ![t] = outcome, ![Head(queue)] = "woken"]
             ELSE /\ gpc' = [gpc EXCEPT ![t] = outcome]
                  /\ UNCHANGED <<queue, woken>>
  /\ UNCHANGED <<arrived, started, offGate>>

\* The task resolves.
Complete(t) == Settle(t, "done")

\* The task rejects: runTask rethrows after the finally block.
Fail(t) == Settle(t, "failed")

----------------------------------------------------------------------------
(* DirectoryManager (initStorage.js).  Directory 1 is data/emails, whose   *)
(* parent data is never created; directory 2 is data/emails/attachments.   *)

MaxCallers == 3

Callers == 1..MaxCallers
Dirs == {1, 2}

\* path.split('/').slice(0, -1).join('/'); 0: no parent to create
ParentPath(path) == IF path = 2 THEN 1 ELSE 0

NoCreation == <<0, 0>>
Creations == Callers \X Dirs

NoStep == [step |-> "none", on |-> NoCreation]

NoCall == [pc |-> "idle", path |-> 0, on |-> NoCreation, joined |-> FALSE, res |-> "none"]

DirIdle ==
  /\ call = [c \in Callers |-> NoCall]
  /\ cr = [id \in Creations |-> NoStep]
  /\ inProgress = [d \in Dirs |-> NoCreation]
  /\ completed = {}
  /\ dirs = {}
  /\ markers = [d \in Dirs |-> 0]

Settled(id) == cr[id].step \in {"true", "error"}

\* const existing = this.inProgress.get(path); if (existing) return existing
JoinsExisting_Never(path) == FALSE

JoinsExisting(path) == inProgress[path] # NoCreation

\* createDirectory(path), l.136-171, up to the first await of the creation
\* it starts, or to the return of the creation in progress.
createDirectory(c, path) ==
  /\ call[c].pc = "idle"
  /\ IF path \in completed
     THEN /\ call' = [call EXCEPT ![c] = [NoCall EXCEPT !.pc = "done", !.path = path,
                                                         !.res = "true"]]
          /\ UNCHANGED <<cr, inProgress>>
     ELSE IF JoinsExisting(path)
     THEN /\ call' = [call EXCEPT ![c] = [NoCall EXCEPT !.pc = "awaiting", !.path = path,
                                                         !.on = inProgress[path],
                                                         !.joined = TRUE]]
          /\ UNCHANGED <<cr, inProgress>>
     ELSE /\ call' = [call EXCEPT ![c] = [NoCall EXCEPT !.pc = "awaiting", !.path = path,
                                                         !.on = <<c, path>>]]
          /\ cr' = [cr EXCEPT ![<<c, path>>].step = "check"]
          /\ inProgress' = [inProgress EXCEPT ![path] = <<c, path>>]
  /\ UNCHANGED <<completed, dirs, markers, offDir>>

\* The finally block of a creation: this.inProgress.delete(path).
Finally(path) == [inProgress EXCEPT ![path] = NoCreation]

\* The creation after getFileInfo(path), l.144-153: the directory is there,
\* or the parent is created first, or the marker is written next.
CheckExists(id, net) ==
  /\ cr[id].step = "check"
  /\ LET path == id[2]
         parentPath == ParentPath(path)
     IN IF net # "answer"
        THEN /\ cr' = [cr EXCEPT ![id].step = "error"]
             /\ inProgress' = Finally(path)
             /\ UNCHANGED completed
        ELSE IF path \in dirs
        THEN /\ cr' = [cr EXCEPT ![id].step = "true"]
             /\ completed' = completed \cup {path}
             /\ inProgress' = Finally(path)
        ELSE IF parentPath = 0 \/ parentPath \in completed
        THEN /\ cr' = [cr EXCEPT ![id].step = "write"]
             /\ UNCHANGED <<inProgress, completed>>
        ELSE IF JoinsExisting(parentPath)
        THEN /\ cr' = [cr EXCEPT ![id] = [step |-> "parent", on |-> inProgress[parentPath]]]
             /\ UNCHANGED <<inProgress, completed>>
        ELSE /\ cr' = [cr EXCEPT ![id] = [step |-> "parent", on |-> <<id[1], parentPath>>],
                                 ![<<id[1], parentPath>>].step = "check"]
             /\ inProgress' = [inProgress EXCEPT ![parentPath] = <<id[1], parentPath>>]
             /\ UNCHANGED completed
  /\ UNCHANGED <<call, dirs, markers, offDir>>

\* The creation after await this.createDirectory(parentPath), l.151-152.
ParentDone(id) ==
  /\ cr[id].step = "parent"
  /\ Settled(cr[id].on)
  /\ IF cr[cr[id].on].step = "true"
     THEN /\ cr' = [cr EXCEPT ![id].step = "write"]
          /\ UNCHANGED inProgress
     ELSE /\ cr' = [cr EXCEPT ![id].step = "error"]
          /\ inProgress' = Finally(id[2])
  /\ UNCHANGED <<call, completed, dirs, markers, offDir>>

\* The creation after writeFile(`${path}/.gitkeep`, ''), l.155-163.
WriteMarker(id, net) ==
  /\ cr[id].step = "write"
  /\ IF net = "answer"
     THEN /\ cr' = [cr EXCEPT ![id].step = "true"]
          /\ dirs' = dirs \cup {id[2]}
          /\ markers' = [markers EXCEPT ![id[2]] = @ + 1]
          /\ completed' = completed \cup {id[2]}
     ELSE /\ cr' = [cr EXCEPT ![id].step = "error"]
          /\ UNCHANGED <<dirs, markers, completed>>
  /\ inProgress' = Finally(id[2])
  /\ UNCHANGED <<call, offDir>>

\* A caller receives what the creation it awaits settled with.
Return(c) ==
  /\ call[c].pc = "awaiting"
  /\ Settled(call[c].on)
  /\ call' = [call EXCEPT ![c] = [@ EXCEPT !.pc = "done", !.res = cr[call[c].on].step]]
  /\ UNCHANGED <<cr, inProgress, completed, dirs, markers, offDir>>

----------------------------------------------------------------------------
(* DirectoryManager, the polling variant (part_004 l.582-628): a call that  *)
(* finds its path in inProgress waits in while (..) await delay(100).       *)
(* A client's call and the calls nested in it for the parents are a stack   *)
(* of frames, the innermost last.                                           *)

PollFrame(path, pc, waited) == [path |-> path, pc |-> pc, waited |-> waited]

NoPoll == [st |-> "idle", stack |-> <<>>]

PollIdle ==
  /\ poll = [c \in Callers |-> NoPoll]
  /\ pInProgress = {}
  /\ pCompleted = {}
  /\ pdirs = {}

PollWaits_Never(path) == FALSE

\* while (this.inProgress.has(path)) await delay(100), l.593-595: whether a
\* call that looks at inProgress, on entry or waking from the delay, waits.
PollWaits(path) == path \in pInProgress

PollTop(c) == poll[c].stack[Len(poll[c].stack)]
PollBelow(c) == SubSeq(poll[c].stack, 1, Len(poll[c].stack) - 1)

\* A call returned true to the frames below it: the call it was nested in
\* goes on to its write, l.611-619; the outermost call returns to the client.
PollReturned(below) ==
  IF below = <<>> THEN [st |-> "true", stack |-> <<>>]
  ELSE [st |-> "run",
        stack |-> Append(SubSeq(below, 1, Len(below) - 1),
                         [below[Len(below)] EXCEPT !.pc = "write"])]

\* A call threw to the frames below it: the call it was nested in throws too.
PollThrown(below) ==
  IF below = <<>> THEN [st |-> "error", stack |-> <<>>]
  ELSE [st |-> "run",
        stack |-> Append(SubSeq(below, 1, Len(below) - 1),
                         [below[Len(below)] EXCEPT !.pc = "throw"])]

\* createDirectory(path) called on top of the frames in stack, l.588-598, up
\* to its first await: what the client's calls and inProgress become.
PollEnter(stack, path) ==
  IF path \in pCompleted THEN [call |-> PollReturned(stack), inProgress |-> pInProgress]
  ELSE IF PollWaits(path)
  THEN [call |-> [st |-> "run", stack |-> Append(stack, PollFrame(path, "poll", TRUE))],
        inProgress |-> pInProgress]
  ELSE [call |-> [st |-> "run", stack |-> Append(stack, PollFrame(path, "check", FALSE))],
        inProgress |-> pInProgress \cup {path}]

\* A client calls createDirectory(path).
PollCall(c, path) ==
  /\ poll[c].st = "idle"
  /\ LET e == PollEnter(<<>>, path)
     IN /\ poll' = [poll EXCEPT ![c] = e.call]
        /\ pInProgress' = e.inProgress
  /\ UNCHANGED <<pCompleted, pdirs, offPoll>>

\* delay(100) is over and the loop test is made again, l.593-598; a call
\* that has to wait again is where it was.
PollWake(c) ==
  /\ poll[c].st = "run" /\ PollTop(c).pc = "poll"
  /\ ~PollWaits(PollTop(c).path)
  /\ poll' = [poll EXCEPT ![c].stack = Append(PollBelow(c), [PollTop(c) EXCEPT !.pc = "check"])]
  /\ pInProgress' = pInProgress \cup {PollTop(c).path}
  /\ UNCHANGED <<pCompleted, pdirs, offPoll>>

\* getFileInfo(path) answers, l.600-612.
PollCheck(c, net) ==
  /\ poll[c].st = "run" /\ PollTop(c).pc = "check"
  /\ LET path == PollTop(c).path
         held == Append(PollBelow(c), [PollTop(c) EXCEPT !.pc = "parent"])
     IN IF net # "ok"
        THEN /\ poll' = [poll EXCEPT ![c].stack = Append(PollBelow(c), [PollTop(c) EXCEPT !.pc = "throw"])]
             /\ UNCHANGED <<pInProgress, pCompleted>>
        ELSE IF path \in pdirs
        THEN /\ pCompleted' = pCompleted \cup {path}
             /\ pInProgress' = pInProgress \ {path}
             /\ poll' = [poll EXCEPT ![c] = PollReturned(PollBelow(c))]
        ELSE IF ParentPath(path) # 0
        THEN LET e == PollEnter(held, ParentPath(path))
             IN /\ poll' = [poll EXCEPT ![c] = e.call]
                /\ pInProgress' = e.inProgress
                /\ UNCHANGED pCompleted
        ELSE /\ poll' = [poll EXCEPT ![c].stack = Append(PollBelow(c), [PollTop(c) EXCEPT !.pc = "write"])]
             /\ UNCHANGED <<pInProgress, pCompleted>>
  /\ UNCHANGED <<pdirs, offPoll>>

\* writeFile(path/.gitkeep) settles, l.619-626.
PollWrite(c, net) ==
  /\ poll[c].st = "run" /\ PollTop(c).pc = "write"
  /\ LET path == PollTop(c).path
     IN IF net # "ok"
        THEN /\ poll' = [poll EXCEPT ![c].stack = Append(PollBelow(c), [PollTop(c) EXCEPT !.pc = "throw"])]
             /\ UNCHANGED <<pInProgress, pCompleted, pdirs>>
        ELSE /\ pdirs' = pdirs \cup {path}
             /\ pCompleted' = pCompleted \cup {path}
             /\ pInProgress' = pInProgress \ {path}
             /\ poll' = [poll EXCEPT ![c] = PollReturned(PollBelow(c))]
  /\ UNCHANGED offPoll

\* The finally block of a call that throws, l.624-626.
PollThrow(c) ==
  /\ poll[c].st = "run" /\ PollTop(c).pc = "throw"
  /\ pInProgress' = pInProgress \ {PollTop(c).path}
  /\ poll' = [poll EXCEPT ![c] = PollThrown(PollBelow(c))]
  /\ UNCHANGED <<pCompleted, pdirs, offPoll>>

\* The client has its answer and may call again.
PollAgain(c) ==
  /\ poll[c].st \in {"true", "error"}
  /\ \E d \in Dirs : d \notin pCompleted
  /\ poll' = [poll EXCEPT ![c] = NoPoll]
  /\ UNCHANGED <<pInProgress, pCompleted, pdirs, offPoll>>

----------------------------------------------------------------------------
(* GitHubStorage.ensureDirectoryExists.  The paths are those of one chain  *)
(* data/1, data/1/2, ..: path n is the n-th directory below data.          *)

MaxDepth == 4

EnsurePaths == 1..MaxDepth

\* path.split('/').slice(0, -1).join('/'); 0 is data, which is not ensured
Parent(path) == path - 1

Frame(path, pc) == [path |-> path, pc |-> pc]
NoEnsure == [stack |-> <<>>, path |-> 0, res |-> "none"]

EnsIdle ==
  /\ ens = NoEnsure
  /\ edirs = {}
  /\ blobs = {}

Top == ens.stack[Len(ens.stack)]
Below == SubSeq(ens.stack, 1, Len(ens.stack) - 1)

\* ensureDirectoryExists(path), l.609: the call of a client.
ensureDirectoryExists(path) ==
  /\ ens = NoEnsure
  /\ ens' = [stack |-> <<Frame(path, "get")>>, path |-> path, res |-> "none"]
  /\ UNCHANGED <<edirs, blobs, offEns>>

\* A nested call returned true to the frame below it: that frame, which
\* awaited the parent (l.632), goes on to `return
\* this.ensureDirectoryExists(path)` (l.636); the outermost call returns.
Returned(stack) ==
  IF stack = <<>> THEN [ens EXCEPT !.stack = <<>>, !.res = "true"]
  ELSE [ens EXCEPT !.stack = SubSeq(stack, 1, Len(stack) - 1)
                              \o <<Frame(stack[Len(stack)].path, "get")>>]

\* An error that is not a 404 leaves every catch block (l.638).
Thrown(res) == [ens EXCEPT !.stack = <<>>, !.res = res]

\* The GET of l.611 and what follows it up to the next request.
EnsureGet(net) ==
  /\ ens.stack # <<>>
  /\ Top.pc = "get"
  /\ ens' = IF net # "answer" THEN Thrown("timeout")
            ELSE IF Top.path \in edirs THEN Returned(Below)
            ELSE IF Top.path \in blobs THEN [ens EXCEPT !.stack = Below \o <<Frame(Top.path, "put")>>]
            ELSE IF Parent(Top.path) # 0
                 THEN [ens EXCEPT !.stack = Below \o <<Frame(Top.path, "parent"),
                                                      Frame(Parent(Top.path), "get")>>]
                 ELSE [ens EXCEPT !.stack = Below \o <<Frame(Top.path, "get")>>]
  /\ UNCHANGED <<edirs, blobs, offEns>>

\* The PUT of {path}/.gitkeep, l.618-625, reached when the GET answered with
\* something that is not a listing: path holds a file, and the backend
\* refuses a file below a file.
EnsurePut(net) ==
  /\ ens.stack # <<>>
  /\ Top.pc = "put"
  /\ ens' = IF net = "answer" THEN Thrown("unprocessable") ELSE Thrown("timeout")
  /\ UNCHANGED <<edirs, blobs, offEns>>

----------------------------------------------------------------------------
(* deleteFolder, request by request.  A request is answered or fails; the  *)
(* failure of one listed item is caught where the code catches it.         *)

\* data/attachments/{fid}/{eid}/{name}: one attachment per email
AttachmentPath(fid, eid) == <<"attachments", fid, eid>>
AttachmentPathsOf(s, fid) == {p \in DOMAIN s : p[1] = "attachments" /\ p[2] = fid}

\* saveEmail, l.1125-1132
attachmentData(emailId, folderId) ==
  WithChecksum([BlankDoc EXCEPT !.kind = "attachment", !.id = emailId,
                !.ref = folderId, !.name = 1, !.checksum = NoChecksum])

----------------------------------------------------------------------------
(* Attachments: EmailForm.validateFile, ContentValidator.validateAttachment *)
(* and saveEmail with an attachment.  Sizes are bytes.                      *)

MAX_FILE_SIZE == 5242880             \* 5 * 1024 * 1024
VALIDATOR_MAX_SIZE == 10485760       \* 10 * 1024 * 1024

ALLOWED_FILE_TYPES == {"image/jpeg", "image/png", "application/pdf", "text/plain"}

FileSizes == {1024, 5242880, 5242881, 6000000, 10485760, 10485761}
FileTypes == {"image/png", "application/zip"}
Files == [size : FileSizes, type : FileTypes]

NoAttachment == [size |-> 0, type |-> ""]

AttIdle ==
  /\ form = [attachments |-> {}, error |-> FALSE]
  /\ attached = NoAttachment

\* EmailForm.validateFile(file): TRUE when it throws.
validateFile(f) ==
  f.size > MAX_FILE_SIZE \/ f.type \notin ALLOWED_FILE_TYPES

\* ContentValidator.validateAttachment(attachment): TRUE when it throws.
\* No function of the program calls it.
validateAttachment(attachment) ==
  attachment.size > VALIDATOR_MAX_SIZE \/ attachment.type \notin ALLOWED_FILE_TYPES

\* What saveEmail checks of an attachment before writing: nothing.
SaveEmailRejects(attachment) == FALSE

\* EmailForm.handleAttachment for one chosen file
handleAttachment(f) ==
  /\ form' = IF validateFile(f)
             THEN [form EXCEPT !.error = TRUE]
             ELSE [attachments |-> form.attachments \cup {f}, error |-> FALSE]
  /\ UNCHANGED <<attached, offAtt>>

\* saveEmail(folderId, emailData, ip) with emailData.attachments = [attachment]
saveEmailWithAttachment(folderId, pw, salt, attachment) ==
  /\ nextId <= MaxId
  /\ attached' = attachment
  /\ LET r == LoadData(store, SaveEmailFolderPath(folderId)) IN
     IF SaveEmailRejects(attachment)
     THEN /\ last' = Result("saveEmail", folderId, 0, "validation")
          /\ UNCHANGED <<store, nextId>>
     ELSE IF r.res # "ok"
     THEN /\ last' = Result("saveEmail", folderId, 0,
                            IF r.res = "null" THEN "notfound" ELSE r.res)
          /\ UNCHANGED <<store, nextId>>
     ELSE LET email == emailMetadata(nextId, folderId, now, PBKDF2(pw, salt), salt)
              sv == SaveData(store, EmailPath(folderId, email.id), email)
              sa == SaveData(sv.store, AttachmentPath(folderId, email.id),
                             attachmentData(email.id, folderId))
          IN /\ store' = IF sv.res = "ok" THEN sa.store ELSE sv.store
             /\ nextId' = nextId + 1
             /\ last' = Result("saveEmail", folderId, 0,
                               IF sv.res = "ok" THEN sa.res ELSE sv.res)
  /\ UNCHANGED <<now, form, offLifeAtt>>

DELETE_MAX_RETRIES == 3      \* deleteFolderContentsWithRetry(folderId, maxRetries = 3)

NoDelete ==
  [pc |-> "idle", id |-> 0, path |-> <<"", 0, 0>>, attempt |-> 0, res |-> "none",
   itemErrors |-> FALSE, linkErrors |-> FALSE]

DelIdle == del = NoDelete

\* const paths = [...], l.1276-1280, and what follows the last of them
ContentDirs == {"emails", "attachments", "versions"}
AfterDir(pc) ==
  CASE pc = "emails" -> "attachments"
    [] pc = "attachments" -> "versions"
    [] OTHER -> "folder"

\* The items of the listing of a content directory that deleteFile can
\* delete: the files.  data/emails/{id} lists the emails and the directory
\* versions; data/attachments/{id} lists one directory per email.  deleteFile
\* of a directory gets a listing, sends no sha and is refused (l.1832-1838).
ListedFiles(s, pc, folderId) ==
  CASE pc = "emails" -> EmailPathsOf(s, folderId)
    [] pc = "versions" -> VersionPathsOf(s, folderId)
    [] OTHER -> {}

\* The items of the listing that are directories.
ListsDirectories(s, pc, folderId) ==
  CASE pc = "emails" -> VersionPathsOf(s, folderId) # {}
    [] pc = "attachments" -> AttachmentPathsOf(s, folderId) # {}
    [] OTHER -> FALSE

\* deleteFolder up to the verification of the password, l.1167-1214
StartDeleteFolder(folderId, adminPassword) ==
  /\ del.pc \in {"idle", "done"}
  /\ LET o == DeleteFolderOutcome(store, folderId, adminPassword)
         folderPath == IF LoadData(store, SilentPath(folderId)).res = "null"
                       THEN ActivePath(folderId) ELSE SilentPath(folderId)
     IN del' = IF o.res # "ok"
               THEN [NoDelete EXCEPT !.pc = "done", !.id = folderId, !.res = o.res]
               ELSE [NoDelete EXCEPT !.pc = "emails", !.id = folderId, !.path = folderPath]
  /\ UNCHANGED <<store, offDel>>

\* One attempt of deleteFolderContentsWithRetry on the current directory:
\* deletePath, l.1303-1328.  The listing fails (net), or a missing directory
\* is passed over, or each listed item is deleted or fails in its own catch
\* (l.1310-1314), which the attempt does not see.
deletePath(net) ==
  /\ del.pc \in ContentDirs
  /\ IF net # "answer"
     THEN /\ del' = IF del.attempt = DELETE_MAX_RETRIES - 1
                    THEN [del EXCEPT !.pc = "done", !.res = "error"]
                    ELSE [del EXCEPT !.attempt = @ + 1]
          /\ UNCHANGED store
     ELSE \E failed \in SUBSET ListedFiles(store, del.pc, del.id) :
            /\ store' = Remove(store, ListedFiles(store, del.pc, del.id) \ failed)
            /\ del' = [del EXCEPT !.pc = AfterDir(del.pc), !.attempt = 0,
                                  !.itemErrors = @ \/ failed # {}
                                     \/ ListsDirectories(store, del.pc, del.id)]
  /\ UNCHANGED offDel

\* await this.deleteFile(folderPath), l.1221
DeleteFolderFile(net) ==
  /\ del.pc = "folder"
  /\ store' = IF net = "lost" THEN store ELSE DeleteFile(store, del.path)
  /\ del' = IF net = "answer" THEN [del EXCEPT !.pc = "links"]
            ELSE [del EXCEPT !.pc = "done", !.res = "error"]
  /\ UNCHANGED offDel

\* What the share-link clean-up returns whether or not its requests fail.
CleanUpResult_Throws(net, failed) == IF net = "answer" /\ failed = {} THEN "true" ELSE "error"

CleanUpResult(net, failed) == "true"

\* The share-link clean-up, l.1224-1261: the listing, then per link file a
\* load and, when it names the folder, a deleteFile; every failure is caught.
CleanUpLinks(net) ==
  /\ del.pc = "links"
  /\ \E failed \in SUBSET (IF net = "answer" THEN LinkPathsOf(store, del.id) ELSE {}) :
       /\ store' = IF net = "answer"
                   THEN Remove(store, LinkPathsOf(store, del.id) \ failed)
                   ELSE store
       /\ del' = [del EXCEPT !.pc = "done", !.res = CleanUpResult(net, failed),
                             !.linkErrors = net # "answer" \/ failed # {}]
  /\ UNCHANGED offDel

----------------------------------------------------------------------------
(* createFolder and loadFolderByShareToken, field by field.  Every string  *)
(* is the sequence of its character codes; a file is the record of its     *)
(* fields.                                                                 *)

MaxFolders == 1
MaxTime == 2

PASSWORD_LENGTH == 20        \* generateSecurePassword: const length = 20
CHARSET_LENGTH == 88         \* the characters of charset, l.39
TOKEN_LENGTH == 32           \* .slice(0, 32)
DIGEST_LENGTH == 64          \* a SHA-256 digest in hexadecimal

\* crypto.getRandomValues(new Uint8Array(length)), from one sampled byte
ByteSamples == {0, 200}
RandomBytes(b) == [i \in 1..PASSWORD_LENGTH |-> (b + i * 41) % 256]

generateSecurePassword_Charset256(randomBytes) ==
  SelectSeq([i \in 1..Len(randomBytes) |-> randomBytes[i] % 256],
            LAMBDA c : c < CHARSET_LENGTH)

\* generateSecurePassword, l.37-49: charset[byte % charset.length] per byte,
\* joined; an index outside charset would join as nothing.
generateSecurePassword(randomBytes) ==
  SelectSeq([i \in 1..Len(randomBytes) |-> randomBytes[i] % CHARSET_LENGTH],
            LAMBDA c : c < CHARSET_LENGTH)

\* CryptoJS.SHA256(x).toString(CryptoJS.enc.Hex): 64 hexadecimal digits
SHA256Hex(x) == [i \in 1..DIGEST_LENGTH |-> (x * 7 + i * 5) % 16]

\* hashPassword, l.61-92: the digest of the password under a random salt
RECURSIVE SumSeq(_)
SumSeq(s) == IF s = <<>> THEN 0 ELSE Head(s) + SumSeq(Tail(s))
hashPassword(password, salt) ==
  [hash |-> <<SumSeq(password) % 251, salt>>, salt |-> <<salt>>]

\* CryptoJS.AES.encrypt(text, passphrase) and decrypt: a cipher keyed by the
\* passphrase, which only the same passphrase undoes.
KeyAt(key, i) == key[((i - 1) % Len(key)) + 1]
AESEncrypt(text, key) == [i \in 1..Len(text) |-> (text[i] + KeyAt(key, i) + i) % 256]
AESDecrypt(cipher, key) == [i \in 1..Len(cipher) |-> (cipher[i] + 512 - KeyAt(key, i) - i) % 256]

\* JSON.stringify and JSON.parse of {name, createdAt}
StringifyShare(metadata) == <<123>> \o metadata.name \o <<44>> \o metadata.createdAt \o <<125>>
ParseShare(text) ==
  IF Len(text) = 5 /\ text[1] = 123 /\ text[3] = 44 /\ text[5] = 125
  THEN [ok |-> TRUE, name |-> <<text[2]>>, createdAt |-> <<text[4]>>]
  ELSE [ok |-> FALSE, name |-> <<>>, createdAt |-> <<>>]

\* generateShareableLink(folderId, metadata), l.175-179
generateShareableLink(folderId, random, metadata) ==
  LET token == SubSeq(SHA256Hex(folderId[1] * 2 + random), 1, TOKEN_LENGTH)
  IN [token |-> token, encryptedData |-> AESEncrypt(StringifyShare(metadata), token)]

\* generateChecksum of a folder file: the digest of all its fields
ShareChecksum(doc) ==
  doc.id \o doc.name \o doc.targetEmail \o doc.createdAt \o doc.updatedAt
    \o doc.status \o doc.adminHash \o doc.adminSalt \o doc.checksum

FolderFile(folderId) == <<"silent", folderId>>
ActiveFolderFile(folderId) == <<"folders", folderId>>
LinkFile(token) == <<"links", token>>

NoFiles == [p \in {} |-> <<>>]
NoCreate ==
  [res |-> "none", id |-> <<>>, name |-> <<>>, createdAt |-> <<>>,
   adminPassword |-> <<>>, shareToken |-> <<>>]
NoShared == [res |-> "none", name |-> <<>>, createdAt |-> <<>>, shareCreatedAt |-> <<>>]

ShareIdle ==
  /\ cf = NoCreate
  /\ repo = NoFiles
  /\ ctime = 0
  /\ shared = NoShared

WriteFile(s, p, d) == [q \in (DOMAIN s) \cup {p} |-> IF q = p THEN d ELSE s[q]]

\* The file createFolder puts at data/silent/folders/{id}.json, l.785-802.
folderFileOf_WithPassword(folderId, name, targetEmail, created, updated, credentials, password) ==
  [id |-> folderId, name |-> name, targetEmail |-> targetEmail,
   createdAt |-> <<created>>, updatedAt |-> <<updated>>, status |-> <<1>>,
   adminHash |-> password, adminSalt |-> credentials.salt,
   checksum |-> <<>>]

folderFileOf(folderId, name, targetEmail, created, updated, credentials, password) ==
  LET m == [id |-> folderId, name |-> name, targetEmail |-> targetEmail,
            createdAt |-> <<created>>, updatedAt |-> <<updated>>, status |-> <<1>>,
            adminHash |-> credentials.hash, adminSalt |-> credentials.salt,
            checksum |-> <<>>]
  IN [m EXCEPT !.checksum = ShareChecksum(m)]

\* createFolder(folderData, ip), l.725-868, with the directories in place.
\* allowed: what checkRateLimit answered; d: the milliseconds from the folder's
\* new Date() to the share link's; net1, net2: the fate of the two PUTs.
createFolderFiles(name, targetEmail, allowed, b, salt, random, d, net1, net2) ==
  /\ Cardinality(DOMAIN repo) + 2 <= 2 * MaxFolders
  /\ ctime + d <= MaxTime
  /\ LET folderId == <<Cardinality(DOMAIN repo) + 1>>
         folderAdminPassword == generateSecurePassword(RandomBytes(b))
         credentials == hashPassword(folderAdminPassword, salt)
         folderMetadata_ == folderFileOf(folderId, name, targetEmail, ctime, ctime,
                                         credentials, folderAdminPassword)
         link == generateShareableLink(folderId, random,
                   [name |-> name, createdAt |-> folderMetadata_.createdAt])
         linkMetadata_ == [folderId |-> folderId, encryptedData |-> link.encryptedData,
                           createdAt |-> <<ctime + d>>]
         thrown(m) == [NoCreate EXCEPT !.res = m]
     IN IF ~allowed
        THEN cf' = thrown("ratelimit") /\ UNCHANGED <<repo, ctime>>
        ELSE IF name = <<>> \/ targetEmail = <<>>
        THEN cf' = thrown("validation") /\ UNCHANGED <<repo, ctime>>
        ELSE IF net1 # "answer"
        THEN cf' = thrown("error") /\ UNCHANGED <<repo, ctime>>
        ELSE IF net2 # "answer" \/ LinkFile(link.token) \in DOMAIN repo
        THEN /\ cf' = thrown("error")
             /\ ctime' = ctime + d
             /\ repo' = WriteFile(repo, FolderFile(folderId), folderMetadata_)
        ELSE /\ cf' = [res |-> "ok", id |-> folderId, name |-> name,
                       createdAt |-> folderMetadata_.createdAt,
                       adminPassword |-> folderAdminPassword, shareToken |-> link.token]
             /\ ctime' = ctime + d
             /\ repo' = WriteFile(WriteFile(repo, FolderFile(folderId), folderMetadata_),
                                  LinkFile(link.token), linkMetadata_)
  /\ UNCHANGED <<shared, offShare>>

\* loadData on these files, l.1054-1071
LoadFile(s, p) ==
  IF p \notin DOMAIN s THEN [res |-> "null", doc |-> <<>>]
  ELSE IF /\ "checksum" \in DOMAIN s[p]
          /\ s[p].checksum # <<>>
          /\ s[p].checksum # ShareChecksum([s[p] EXCEPT !.checksum = <<>>])
       THEN [res |-> "integrity", doc |-> <<>>]
       ELSE [res |-> "ok", doc |-> s[p]]

\* loadFolderByShareToken(token), l.1670-1694: every failure is rethrown as
\* 'Invalid share token'.
SharedFolder(s, token) ==
  LET invalid == [NoShared EXCEPT !.res = "invalid"]
      linkData == LoadFile(s, LinkFile(token))
  IN IF linkData.res # "ok" THEN invalid
     ELSE LET a == LoadFile(s, ActiveFolderFile(linkData.doc.folderId))
              b == LoadFile(s, FolderFile(linkData.doc.folderId))
              folder == IF a.res = "null" THEN b ELSE a
              shareMetadata == ParseShare(AESDecrypt(linkData.doc.encryptedData, token))
          IN IF folder.res # "ok" \/ ~shareMetadata.ok THEN invalid
             ELSE [res |-> "ok", name |-> folder.doc.name,
                   createdAt |-> folder.doc.createdAt,
                   shareCreatedAt |-> shareMetadata.createdAt]

loadFolderByShareToken(token) ==
  /\ shared' = SharedFolder(repo, token)
  /\ UNCHANGED <<cf, repo, ctime, offShare>>

\* checkFolderApproval's move of a folder file to data/folders, l.1714-1722:
\* the file is saved with the checksum the silent file had.
ApproveFile(folderId) ==
  /\ FolderFile(folderId) \in DOMAIN repo
  /\ ctime + 1 <= MaxTime
  /\ LET m == [repo[FolderFile(folderId)] EXCEPT !.status = <<2>>, !.updatedAt = <<ctime + 1>>]
         kept == [q \in (DOMAIN repo) \ {FolderFile(folderId)} |-> repo[q]]
     IN repo' = WriteFile(kept, ActiveFolderFile(folderId), m)
  /\ ctime' = ctime + 1
  /\ UNCHANGED <<cf, shared, offShare>>

----------------------------------------------------------------------------
(* deleteFile on one path, by two clients, with other writers about.       *)

MaxSha == 2

Deleters == {1, 2}

NoDeleteFile == [pc |-> "idle", sha |-> NoSha, res |-> "none", status |-> ""]

FileIdle ==
  /\ df = [d \in Deleters |-> NoDeleteFile]
  /\ dfile = [exists |-> FALSE, sha |-> NoSha]

\* DELETE /contents/{path} with {sha}: 404 for a missing file, 409 when the
\* sha is not the current one.
BackendDelete(f, sentSha) ==
  IF ~f.exists THEN [status |-> "404", file |-> f]
  ELSE IF sentSha # f.sha THEN [status |-> "409", file |-> f]
  ELSE [status |-> "200", file |-> [exists |-> FALSE, sha |-> f.sha]]

Swallowed_Nothing(status) == FALSE

\* if (!error.message.includes('404')) throw error, l.1841-1844
Swallowed(status) == status = "404"

FileOutcome(status) ==
  IF status = "200" \/ Swallowed(status) THEN "ok" ELSE "error"

\* deleteFile(path), l.1830-1846: the GET that reads the sha.
DeleteFilePeek(d, net) ==
  /\ df[d].pc \in {"idle", "done"}
  /\ LET status == IF net # "answer" THEN "timeout"
                   ELSE IF dfile.exists THEN "200" ELSE "404"
     IN df' = [df EXCEPT ![d] =
                 IF status = "200"
                 THEN [pc |-> "peeked", sha |-> dfile.sha, res |-> "none", status |-> status]
                 ELSE [pc |-> "done", sha |-> NoSha, res |-> FileOutcome(status),
                       status |-> status]]
  /\ UNCHANGED <<dfile, offFile>>

\* deleteFile(path): the DELETE with the sha read.
DeleteFileDelete(d, net) ==
  /\ df[d].pc = "peeked"
  /\ LET b == BackendDelete(dfile, df[d].sha)
         status == IF net = "answer" THEN b.status ELSE "timeout"
     IN /\ dfile' = IF net = "lost" THEN dfile ELSE b.file
        /\ df' = [df EXCEPT ![d].pc = "done", ![d].res = FileOutcome(status),
                            ![d].status = status]
  /\ UNCHANGED offFile

\* Another writer creates or rewrites the file (saveData's PUT).
OtherPut ==
  /\ dfile.sha < MaxSha
  /\ dfile' = [exists |-> TRUE, sha |-> dfile.sha + 1]
  /\ UNCHANGED <<df, offFile>>

----------------------------------------------------------------------------
(* PasswordManager: the password cache in localStorage.                    *)

MaxDevices == 2
MaxPrompts == 2

ENCRYPTION_KEY == 7            \* SHA256(host + userAgent)

PwKeys == {1, 2}               \* `${type}_${id}`: folder_1 and email_1
SaltSamples == {1, 2}          \* CryptoJS.lib.WordArray.random(128/8)

\* salt.toString(): the hexadecimal digits of the salt, as character codes
HexOf(salt) == <<48 + (salt \div 16), 48 + (salt % 16)>>

\* The bytes PBKDF2 takes for a salt given as a string: its characters.
Utf8Parse(string) == string

\* CryptoJS.PBKDF2(passphrase, salt, ..): one key per passphrase and salt bytes
PwKDF(passphrase, saltBytes) == <<passphrase>> \o saltBytes

\* CryptoJS.SHA256(x).toString(): one digest per value
PwDigest(x) == [sha |-> x]

\* encryptData(data), l.368-382: the key is derived from the salt as a
\* WordArray; the result is salt.toString() + ':' + ciphertext.
encryptData(data, salt) ==
  [present |-> TRUE, salt |-> HexOf(salt),
   key |-> PwKDF(ENCRYPTION_KEY, <<salt>>), text |-> data]

\* decryptData(data), l.384-398: the key is derived from the salt as the
\* string that split(':') gives; a text encrypted under another key does
\* not come back.
decryptData(data) ==
  IF PwKDF(ENCRYPTION_KEY, Utf8Parse(data.salt)) = data.key
  THEN [ok |-> TRUE, text |-> data.text]
  ELSE [ok |-> FALSE, text |-> 0]

NoEntries == [k \in {} |-> 0]
NoBlob == [present |-> FALSE, salt |-> <<>>, key |-> <<>>, text |-> NoEntries]

NoStorage ==
  [blob |-> NoBlob, checksum |-> PwDigest(NoBlob), pref |-> "null",
   deviceId |-> 0, made |-> 0]

PwResult(op, key, res, val) == [op |-> op, key |-> key, res |-> res, val |-> val]

PwIdle ==
  /\ ls = NoStorage
  /\ pwres = PwResult("none", 0, "none", 0)
  /\ prompts = 0

\* getDeviceId(), l.229-241: the stored id, or a new one that is stored.
getDeviceId(l) ==
  IF l.deviceId # 0 THEN l
  ELSE [l EXCEPT !.deviceId = l.made + 1, !.made = l.made + 1]

saveToStorage_StaleChecksum(l, data, salt) ==
  [l EXCEPT !.blob = encryptData(data, salt)]

\* saveToStorage(data), l.243-250
saveToStorage(l, data, salt) ==
  LET encryptedData == encryptData(data, salt)
  IN [l EXCEPT !.blob = encryptedData, !.checksum = PwDigest(encryptedData)]

\* getStoredPasswords(), l.261-290: the entries, and localStorage after the
\* call (getDeviceId may have written to it).
getStoredPasswords(l) ==
  LET none == [data |-> NoEntries, ls |-> l] IN
  IF ~l.blob.present THEN none
  ELSE IF l.checksum # PwDigest(l.blob) THEN none
  ELSE LET d == decryptData(l.blob) IN
       IF ~d.ok THEN none
       ELSE LET l2 == getDeviceId(l)
                data == d.text
            IN [data |-> [k \in {j \in DOMAIN data : data[j].deviceId = l2.deviceId} |-> data[k]],
                ls |-> l2]

PersistPreference_OnlyConsent(l, shouldSave) ==
  IF shouldSave THEN [l EXCEPT !.pref = "true"] ELSE l

\* localStorage.setItem(PREFERENCE_KEY, shouldSave.toString()), l.200
PersistPreference(l, shouldSave) ==
  [l EXCEPT !.pref = IF shouldSave THEN "true" ELSE "false"]

\* savePassword(type, id, password), l.187-227.  password 0 is the empty
\* string; answer is what the user answers if asked.
savePassword(k, password, answer, salt1, salt2) ==
  /\ prompts < MaxPrompts
  /\ ls.made < MaxDevices \/ ls.deviceId # 0
  /\ IF password = 0
     THEN /\ pwres' = PwResult("savePassword", k, "false", 0)
          /\ UNCHANGED <<ls, prompts>>
     ELSE LET asked == ls.pref = "null"
              shouldSave == IF asked THEN answer ELSE ls.pref = "true"
              l1 == IF asked THEN PersistPreference(ls, shouldSave) ELSE ls
              g == getStoredPasswords(l1)
              l2 == getDeviceId(g.ls)
              entry == [hash |-> PwDigest(password),
                        password |-> encryptData(password, salt1),
                        deviceId |-> l2.deviceId]
              stored == [j \in DOMAIN g.data \cup {k} |-> IF j = k THEN entry ELSE g.data[j]]
          IN /\ prompts' = IF asked THEN prompts + 1 ELSE prompts
             /\ IF shouldSave
                THEN /\ ls' = saveToStorage(l2, stored, salt2)
                     /\ pwres' = PwResult("savePassword", k, "true", 0)
                ELSE /\ ls' = l1
                     /\ pwres' = PwResult("savePassword", k, "false", 0)
  /\ UNCHANGED offPw

\* What getPassword(type, id) returns, l.292-308: null (0) or the password.
GetPassword(l, k) ==
  LET g == getStoredPasswords(l) IN
  IF k \notin DOMAIN g.data THEN 0
  ELSE LET d == decryptData(g.data[k].password) IN IF d.ok THEN d.text ELSE 0

getPassword(k, salt) ==
  /\ ls.made < MaxDevices \/ ls.deviceId # 0
  /\ LET g == getStoredPasswords(ls)
         val == GetPassword(ls, k)
     IN /\ ls' = IF k \in DOMAIN g.data THEN saveToStorage(g.ls, g.data, salt) ELSE g.ls
        /\ pwres' = PwResult("getPassword", k, IF val = 0 THEN "null" ELSE "value", val)
  /\ UNCHANGED <<prompts, offPw>>

\* What verifyPassword(type, id, password) returns, l.310-325.
VerifyPassword(l, k, password) ==
  LET g == getStoredPasswords(l) IN
  k \in DOMAIN g.data /\ PwDigest(password) = g.data[k].hash

PwBool(b) == IF b THEN "true" ELSE "false"

verifyPasswordOp(k, password) ==
  /\ ls.made < MaxDevices \/ ls.deviceId # 0
  /\ ls' = getStoredPasswords(ls).ls
  /\ pwres' = PwResult("verifyPassword", k, PwBool(VerifyPassword(ls, k, password)), password)
  /\ UNCHANGED <<prompts, offPw>>

\* hasPassword(type, id), l.412-415
HasPassword(l, k) == k \in DOMAIN getStoredPasswords(l).data

hasPassword(k) ==
  /\ ls.made < MaxDevices \/ ls.deviceId # 0
  /\ ls' = getStoredPasswords(ls).ls
  /\ pwres' = PwResult("hasPassword", k, PwBool(HasPassword(ls, k)), 0)
  /\ UNCHANGED <<prompts, offPw>>

\* removePassword(type, id), l.327-337
removePassword(k, salt) ==
  /\ ls.made < MaxDevices \/ ls.deviceId # 0
  /\ LET g == getStoredPasswords(ls)
         stored == [j \in (DOMAIN g.data) \ {k} |-> g.data[j]]
     IN ls' = saveToStorage(g.ls, stored, salt)
  /\ pwres' = PwResult("removePassword", k, "true", 0)
  /\ UNCHANGED <<prompts, offPw>>

\* clearAll(), l.400-410, and the end of killSwitch('all'), l.359-362
clearAll ==
  /\ ls' = [ls EXCEPT !.blob = NoBlob, !.checksum = PwDigest(NoBlob), !.pref = "null"]
  /\ pwres' = PwResult("clearAll", 0, "true", 0)
  /\ prompts' = 0
  /\ UNCHANGED offPw

\* The user clears the device id, or the checksum is changed, outside the
\* application.
LoseDeviceId ==
  /\ ls.deviceId # 0
  /\ ls.made < MaxDevices
  /\ ls' = [ls EXCEPT !.deviceId = 0]
  /\ UNCHANGED <<pwres, prompts, offPw>>

DamageChecksum ==
  /\ ls.blob.present
  /\ ls.checksum = PwDigest(ls.blob)
  /\ ls' = [ls EXCEPT !.checksum = PwDigest(NoBlob)]
  /\ UNCHANGED <<pwres, prompts, offPw>>

----------------------------------------------------------------------------
(* PasswordManager.killSwitch.                                             *)

KillTypes == {"all", "folder", "email"}

\* entry.type of the entry stored under `${type}_${id}`
EntryType(k) == IF k = 1 THEN "folder" ELSE "email"

KillIdle ==
  /\ remote = {}
  /\ tried = {}

\* The body of the loop for one entry, l.344-355: "none" when the storage is
\* not called, "deleted" when the call returns, "failed" when it throws.
\* The password handed over is decryptData(entry.password); GitHubStorage
\* has deleteFolder and deleteContent but no method deleteEmail, so that
\* call throws a TypeError.
KillEntry(entry, k, net) ==
  LET d == decryptData(entry.password) IN
  IF ~d.ok THEN "none"
  ELSE IF EntryType(k) = "email" THEN "failed"
  ELSE IF net = "ok" /\ PwDigest(d.text) = entry.hash THEN "deleted"
  ELSE "failed"

\* killSwitch(type), l.339-366.  nets gives, per entity, how the backend
\* answers the requests of its deletion.
killSwitch(type, salt, nets) ==
  /\ ls.made < MaxDevices \/ ls.deviceId # 0
  /\ LET g == getStoredPasswords(ls)
         selected == {k \in DOMAIN g.data : type = "all" \/ EntryType(k) = type}
         outcome == [k \in selected |-> KillEntry(g.data[k], k, nets[k])]
         deleted == {k \in selected : outcome[k] = "deleted"}
         stored == [j \in (DOMAIN g.data) \ deleted |-> g.data[j]]
     IN /\ tried' = tried \cup {k \in selected : outcome[k] # "none"}
        /\ remote' = remote \ deleted
        /\ ls' = IF type = "all"
                 THEN [g.ls EXCEPT !.blob = NoBlob, !.checksum = PwDigest(NoBlob),
                                   !.pref = "null"]
                 ELSE saveToStorage(g.ls, stored, salt)
        /\ prompts' = IF type = "all" THEN 0 ELSE prompts
  /\ pwres' = PwResult("killSwitch", 0, type, 0)
  /\ UNCHANGED offPwKill

LifeIdle ==
  /\ store = EmptyStore
  /\ now = 0
  /\ nextId = 3
  /\ last = Result("none", 0, 0, "none")

\* Every part but X is as constructed.
IdleExcept(X) ==
  /\ IF X = "life" THEN TRUE ELSE LifeIdle
  /\ IF X = "save" THEN TRUE ELSE SaveIdle
  /\ IF X = "rate" THEN TRUE ELSE RateIdle
  /\ IF X = "gate" THEN TRUE ELSE GateIdle
  /\ IF X = "dir" THEN TRUE ELSE DirIdle
  /\ IF X = "ens" THEN TRUE ELSE EnsIdle
  /\ IF X = "del" THEN TRUE ELSE DelIdle
  /\ IF X = "share" THEN TRUE ELSE ShareIdle
  /\ IF X = "file" THEN TRUE ELSE FileIdle
  /\ IF X = "pw" THEN TRUE ELSE PwIdle
  /\ IF X = "kill" THEN TRUE ELSE KillIdle
  /\ IF X = "att" THEN TRUE ELSE AttIdle
  /\ IF X = "adm" THEN TRUE ELSE AdmIdle
  /\ IF X = "poll" THEN TRUE ELSE PollIdle
  /\ IF X = "life" THEN ReadIdle ELSE TRUE

InitRate ==
  /\ IdleExcept("rate")
  /\ ReadIdle
  /\ RateIdle

NextRate ==
  \/ \E ip \in IPs, a \in Actions : checkRateLimit(ip, a)
  \/ \E ip \in IPs, a \in Actions : flagSuspiciousIP(ip, a)
  \/ \E ip \in IPs : addToBlacklist(ip)
  \/ TickRate
  \/ LongTick
  \/ Restart

SpecRate == InitRate /\ [][NextRate]_vars

InitAdm ==
  /\ IdleExcept("rate")
  /\ ReadIdle
  /\ RateIdle

NextAdm ==
  \/ \E ip \in IPs, name \in Names, targetEmail \in Names :
        createFolderEntry(ip, name, targetEmail)
  \/ TickRate
  \/ LongTick

SpecAdm == InitAdm /\ [][NextAdm]_vars

InitGate ==
  /\ IdleExcept("gate")
  /\ ReadIdle
  /\ GateIdle

NextGate ==
  \/ \E t \in Tasks : runTask(t)
  \/ \E t \in Tasks : Resume(t)
  \/ \E t \in Tasks : Complete(t)

SpecGate == InitGate /\ [][NextGate]_vars

\* The calls are interchangeable: call t is the t-th to be made.
NextCall(t) ==
  /\ \A u \in Tasks : u < t => gpc[u] # "idle"
  /\ runTask(t)

NextSettle ==
  \/ \E t \in Tasks : NextCall(t)
  \/ \E t \in Tasks : Resume(t)
  \/ \E t \in Tasks : Complete(t)
  \/ \E t \in Tasks : Fail(t)

SpecSettle == InitGate /\ [][NextSettle]_vars

\* Every running task settles, and the continuation of a resolved promise
\* runs.
FairSpecSettle ==
  /\ SpecSettle
  /\ WF_vars(\E t \in Tasks : Resume(t))
  /\ WF_vars(\E t \in Tasks : Complete(t) \/ Fail(t))

InitDir ==
  /\ IdleExcept("dir")
  /\ ReadIdle
  /\ call = [c \in Callers |-> NoCall]
  /\ cr = [id \in Creations |-> NoStep]
  /\ inProgress = [d \in Dirs |-> NoCreation]
  /\ completed = {}
  /\ dirs \in {{}, {1}, {1, 2}}
  /\ markers = [d \in Dirs |-> 0]

NextDir ==
  \/ \E c \in Callers, path \in Dirs : createDirectory(c, path)
  \/ \E id \in Creations, net \in GetNet : CheckExists(id, net)
  \/ \E id \in Creations : ParentDone(id)
  \/ \E id \in Creations, net \in GetNet : WriteMarker(id, net)
  \/ \E c \in Callers : Return(c)

SpecDir == InitDir /\ [][NextDir]_vars

InitPoll ==
  /\ IdleExcept("poll")
  /\ ReadIdle
  /\ PollIdle

NextPoll ==
  \/ \E c \in Callers, path \in Dirs : PollCall(c, path)
  \/ \E c \in Callers : PollWake(c)
  \/ \E c \in Callers, net \in {"ok", "fail"} : PollCheck(c, net)
  \/ \E c \in Callers, net \in {"ok", "fail"} : PollWrite(c, net)
  \/ \E c \in Callers : PollThrow(c)
  \/ \E c \in Callers : PollAgain(c)

SpecPoll == InitPoll /\ [][NextPoll]_vars

\* The chain exists down to some depth; the path below that may hold a file.
InitEnsure ==
  /\ IdleExcept("ens")
  /\ ReadIdle
  /\ ens = NoEnsure
  /\ \E n \in 0..MaxDepth :
       /\ edirs = 1..n
       /\ blobs \in {{}, {n + 1} \cap EnsurePaths}

NextEnsure ==
  \/ \E path \in EnsurePaths : ensureDirectoryExists(path)
  \/ \E net \in GetNet : EnsureGet(net)
  \/ \E net \in GetNet : EnsurePut(net)

SpecEnsure == InitEnsure /\ [][NextEnsure]_vars

\* Every request is answered or times out, and the client goes on.
FairSpecEnsure == SpecEnsure /\ WF_vars(NextEnsure)

ShareNames == {<<>>, <<1>>, <<2>>}
WrongToken == [i \in 1..TOKEN_LENGTH |-> 0]
Tokens == {p[2] : p \in {q \in DOMAIN repo : q[1] = "links"}} \cup {WrongToken}

InitShare ==
  /\ IdleExcept("share")
  /\ ReadIdle
  /\ ShareIdle

NextShare ==
  \/ \E name \in ShareNames, targetEmail \in {<<>>, <<1>>}, allowed \in BOOLEAN,
        b \in ByteSamples, salt \in Salts, random \in {0, 1}, d \in {0, 1},
        net1 \in GetNet, net2 \in GetNet :
        createFolderFiles(name, targetEmail, allowed, b, salt, random, d, net1, net2)
  \/ \E token \in Tokens : loadFolderByShareToken(token)
  \/ \E n \in 1..(2 * MaxFolders) : ApproveFile(<<n>>)

SpecShare == InitShare /\ [][NextShare]_vars

InitFile ==
  /\ IdleExcept("file")
  /\ ReadIdle
  /\ df = [d \in Deleters |-> NoDeleteFile]
  /\ dfile \in {[exists |-> FALSE, sha |-> NoSha], [exists |-> TRUE, sha |-> 1]}

NextFile ==
  \/ \E d \in Deleters, net \in GetNet : DeleteFilePeek(d, net)
  \/ \E d \in Deleters, net \in Net : DeleteFileDelete(d, net)
  \/ OtherPut

SpecFile == InitFile /\ [][NextFile]_vars

InitPw ==
  /\ IdleExcept("pw")
  /\ ReadIdle
  /\ PwIdle

NextPw ==
  \/ \E k \in PwKeys, password \in {0} \cup Passwords, answer \in BOOLEAN,
        salt1 \in SaltSamples, salt2 \in SaltSamples :
        savePassword(k, password, answer, salt1, salt2)
  \/ \E k \in PwKeys, salt \in SaltSamples : getPassword(k, salt)
  \/ \E k \in PwKeys, password \in Passwords : verifyPasswordOp(k, password)
  \/ \E k \in PwKeys : hasPassword(k)
  \/ \E k \in PwKeys, salt \in SaltSamples : removePassword(k, salt)
  \/ clearAll
  \/ LoseDeviceId
  \/ DamageChecksum

SpecPw == InitPw /\ [][NextPw]_vars

InitKill ==
  /\ IdleExcept("kill")
  /\ ReadIdle
  /\ remote = PwKeys
  /\ tried = {}

NextKill ==
  \/ NextPw
  \/ \E type \in KillTypes, salt \in SaltSamples, nets \in [PwKeys -> {"ok", "fail"}] :
        killSwitch(type, salt, nets)

SpecKill == InitKill /\ [][NextKill]_vars

InitSave ==
  /\ IdleExcept("save")
  /\ ReadIdle
  /\ file \in {NoFile, StoredPlain, StoredEmail}
  /\ wr = [w \in Writers |-> IdleWriter]
  /\ cache = NoCache
  /\ clock = 0

NextSave ==
  \/ \E w \in Writers : StartSaveData(w)
  \/ \E w \in Writers, a \in {"increment", "decrement"} : StartUpdateEmailLikes(w, a)
  \/ \E w \in Writers, op \in WriteFileOps : StartWriteFile(w, op)
  \/ \E w \in Writers, net \in GetNet : LoadEmail(w, net)
  \/ \E w \in Writers, net \in GetNet : SaveDataGet(w, net)
  \/ \E w \in Writers, net \in Net : SaveDataPut(w, net)
  \/ \E w \in Writers, net \in GetNet : GetFileInfo(w, net)
  \/ \E w \in Writers, net \in Net : WriteFilePut(w, net)
  \/ CachePeriodPasses

SpecSave == InitSave /\ [][NextSave]_vars

----------------------------------------------------------------------------
(* The lifecycle specification.  The repository outlives any one client:   *)
(* it starts empty, or holding one approved folder (id 1, share token 2)   *)
(* whose checksum loadData accepts.                                        *)

SeedFolder ==
  WithChecksum([BlankDoc EXCEPT !.id = 1, !.name = 1, !.createdAt = 0,
                !.updatedAt = 0, !.approvedAt = 0, !.status = FOLDER_STATUS_ACTIVE,
                !.hash = PBKDF2(1, 1), !.salt = 1])

SeedStore == Put(Put(EmptyStore, ActivePath(1), SeedFolder), LinkPath(2),
                 linkMetadata(2, 1, 1, 0))

\* The folder ids a caller can name: those of the stored folders, and one
\* (0) that no folder has.
FolderIds == {0} \cup {p[2] : p \in {q \in DOMAIN store : q[1] \in {"silent", "folders"}}}

Init ==
  /\ store \in {EmptyStore, SeedStore}
  /\ now = 0
  /\ nextId = 3
  /\ last = Result("none", 0, 0, "none")
  /\ IdleExcept("life")

Next ==
  \/ \E name \in Names, pw \in Passwords, salt \in Salts : createFolder(name, pw, salt)
  \/ \E id \in FolderIds : checkFolderApproval(id)
  \/ \E id \in FolderIds : handleInteraction(id)
  \/ \E id \in FolderIds, pw \in Passwords, salt \in Salts : forkFolder(id, pw, salt)
  \/ \E id \in FolderIds, pw \in Passwords, salt \in Salts : saveEmail(id, pw, salt)
  \/ \E p \in DOMAIN store, a \in {"increment", "decrement"} :
        p[1] = "emails" /\ updateEmailLikes(p[2], p[3], a)
  \/ \E p \in DOMAIN store : p[1] = "emails" /\ createEmailVersion(p[2], p[3])
  \/ \E id \in FolderIds, pw \in Passwords : deleteFolder(id, pw)
  \/ \E p \in DOMAIN store, pw \in Passwords :
        p[1] \in {"emails", "versions"} /\ deleteContent(p, pw)
  \/ Tick

Spec == Init /\ [][Next]_vars

InitAtt ==
  /\ store = SeedStore
  /\ now = 0
  /\ nextId = 3
  /\ last = Result("none", 0, 0, "none")
  /\ IdleExcept("life")

NextAtt ==
  \/ \E f \in Files : handleAttachment(f)
  \/ \E folderId \in FolderIds, pw \in Passwords, salt \in Salts, f \in Files :
        saveEmailWithAttachment(folderId, pw, salt, f)

SpecAtt == InitAtt /\ [][NextAtt]_vars

----------------------------------------------------------------------------
(* Read operations.  The repository is an ordinary git repository: its     *)
(* files can be edited by anyone with access, which leaves the stored      *)
(* checksum as it was.                                                     *)

ReadResult(op, res, docs) == [op |-> op, res |-> res, docs |-> docs]

\* loadData(path), l.1054-1071
loadData(p) ==
  /\ LET r == LoadData(store, p) IN
     read' = ReadResult("loadData", r.res, IF r.res = "ok" THEN {p} ELSE {})
  /\ UNCHANGED <<store, offRead>>

\* loadEmails(folderId) as an operation, l.1621-1667: never throws.
loadEmailsOp(folderId) ==
  /\ read' = ReadResult("loadEmails", "ok", loadEmails(store, folderId))
  /\ UNCHANGED <<store, offRead>>

FolderPaths(s, dir) == {p \in DOMAIN s : p[1] = dir}

\* The repository holds a directory when a file is below it; the listing of
\* a directory it does not hold is answered 404.
DirectoryExists(s, dir) == FolderPaths(s, dir) # {}

\* loadFolders(includeAll), l.871-909: Promise.all over loadData; a 404 of
\* either listing ends in the catch block, which returns [] (l.903-906).
LoadFolders(s, includeAll) ==
  LET P == FolderPaths(s, "folders")
             \cup (IF includeAll THEN FolderPaths(s, "silent") ELSE {})
  IN IF ~DirectoryExists(s, "folders") THEN ReadResult("loadFolders", "ok", {})
     ELSE IF \E p \in FolderPaths(s, "folders") : LoadData(s, p).res # "ok"
          THEN ReadResult("loadFolders", "integrity", {})
     ELSE IF includeAll /\ ~DirectoryExists(s, "silent")
          THEN ReadResult("loadFolders", "ok", {})
     ELSE IF \A p \in P : LoadData(s, p).res = "ok"
          THEN ReadResult("loadFolders", "ok", P)
          ELSE ReadResult("loadFolders", "integrity", {})

loadFolders(includeAll) ==
  /\ read' = LoadFolders(store, includeAll)
  /\ UNCHANGED <<store, offRead>>

\* loadEmailVersions(folderId, emailId), l.1353-1374
loadEmailVersions(folderId, emailId) ==
  /\ read' = IF VersionsLoad(store, folderId)
             THEN ReadResult("loadEmailVersions", "ok",
                             {p \in VersionPathsOf(store, folderId) : store[p].orig = emailId})
             ELSE ReadResult("loadEmailVersions", "integrity", {})
  /\ UNCHANGED <<store, offRead>>

\* A stored file is edited outside the application.
Tamper(p) ==
  /\ p \in DOMAIN store
  /\ store' = [store EXCEPT ![p].likes = 1 - @]
  /\ UNCHANGED <<read, offRead>>

\* A missing file next to the stored ones.
MissingPath == EmailPath(1, 0)

\* Folder 1 approved, folder 3 silent, up to MaxStored emails in folder 1 as
\* saveEmail writes them, and possibly a version of the first as
\* createEmailVersion writes it.
MaxStored == 2

ReadStore(n, v) ==
  LET s == WithEmails(Put(SeedStore, SilentPath(3),
                          folderMetadata(3, 1, 0, PBKDF2(1, 1), 1)), n)
  IN IF v /\ n > 0
     THEN Put(s, VersionPath(1, 4), emailVersion(s[EmailPath(1, SeedEmailId(1))], 4, 0))
     ELSE s

\* The folders are in both directories, or one of the directories is not
\* there: no folder was approved yet, or none is silent any more.
InitRead ==
  /\ \E n \in 0..MaxStored, v \in BOOLEAN, gone \in {"", "folders", "silent"} :
       store = Remove(ReadStore(n, v), FolderPaths(ReadStore(n, v), gone))
  /\ now = 0
  /\ nextId = 5
  /\ last = Result("none", 0, 0, "none")
  /\ IdleExcept("life")

NextRead ==
  \/ \E p \in DOMAIN store \cup {MissingPath} : loadData(p)
  \/ \E id \in FolderIds : loadEmailsOp(id)
  \/ \E all \in BOOLEAN : loadFolders(all)
  \/ \E p \in DOMAIN store : p[1] = "emails" /\ loadEmailVersions(p[2], p[3])
  \/ \E p \in DOMAIN store : Tamper(p)

SpecRead == InitRead /\ [][NextRead]_vars

----------------------------------------------------------------------------
(* deleteFolder on a stored folder *)

\* The store of the read operations, with or without an attachment of the
\* first email of folder 1.
DeleteStore(n, v, a) ==
  IF a /\ n > 0
  THEN Put(ReadStore(n, v), AttachmentPath(1, SeedEmailId(1)),
           attachmentData(SeedEmailId(1), 1))
  ELSE ReadStore(n, v)

InitDelete ==
  /\ \E n \in 0..MaxStored, v \in BOOLEAN, a \in BOOLEAN : store = DeleteStore(n, v, a)
  /\ now = 0
  /\ nextId = 5
  /\ last = Result("none", 0, 0, "none")
  /\ IdleExcept("life")

NextDelete ==
  \/ \E id \in FolderIds, pw \in Passwords : StartDeleteFolder(id, pw)
  \/ \E net \in GetNet : deletePath(net)
  \/ \E net \in Net : DeleteFolderFile(net)
  \/ \E net \in GetNet : CleanUpLinks(net)

SpecDelete == InitDelete /\ [][NextDelete]_vars

----------------------------------------------------------------------------
(* Versions of one email and of one country folder, created in sequence.   *)

InitVersions ==
  /\ \E n \in 1..MaxStored : store = WithEmails(SeedStore, n)
  /\ now = 0
  /\ nextId = 3
  /\ last = Result("none", 0, 0, "none")
  /\ IdleExcept("life")

NextVersions ==
  \/ \E p \in DOMAIN store : p[1] = "emails" /\ createEmailVersion(p[2], p[3])
  \/ \E net \in GetNet : createCountryFolderVersion(1, net)
  \/ Tick

SpecVersions == InitVersions /\ [][NextVersions]_vars

----------------------------------------------------------------------------
(* Claims about the lifecycle operations *)

AllIds == 0..MaxId

\* The document deleteFolder authorises against: the silent copy if there
\* is one, else the active copy.
FolderTarget(s, id) ==
  IF SilentPath(id) \in DOMAIN s THEN SilentPath(id) ELSE ActivePath(id)

\* The path of the email or version document with this id.
ContentTarget(s, id) ==
  {p \in DOMAIN s : p[1] \in {"emails", "versions"} /\ s[p].id = id}

Refused(s, p, pw) ==
  /\ p \in DOMAIN s
  /\ ~verifyPassword(pw, s[p].hash, s[p].salt)

FolderStatus(s, id) ==
  IF ActivePath(id) \in DOMAIN s THEN s[ActivePath(id)].status
  ELSE IF SilentPath(id) \in DOMAIN s THEN s[SilentPath(id)].status
  ELSE "absent"

\* C7: the status stored for a folder id only changes silent -> active or
\* silent -> flagged; once a folder is active or flagged no silent document
\* is written for its id, and an id only appears as a new silent folder
\* when it was never handed out before.
C7_StatusOnlyAdvances ==
  [][ \A id \in AllIds :
        LET a == FolderStatus(store, id)
            b == FolderStatus(store', id)
        IN /\ (a # b /\ a # "absent" /\ b # "absent")
                => (a = FOLDER_STATUS_SILENT
                     /\ b \in {FOLDER_STATUS_ACTIVE, FOLDER_STATUS_FLAGGED})
           /\ (a \in {FOLDER_STATUS_ACTIVE, FOLDER_STATUS_FLAGGED}
                /\ SilentPath(id) \in DOMAIN store')
                => (SilentPath(id) \in DOMAIN store
                     /\ store'[SilentPath(id)] = store[SilentPath(id)])
           /\ (a = "absent" /\ b # "absent")
                => (id >= nextId /\ b = FOLDER_STATUS_SILENT)
    ]_vars

\* A folder that createFolder stored silent has been moved to the active
\* path with status active.
C7_Witness ==
  /\ last.op = "checkFolderApproval"
  /\ last.id >= 3
  /\ ActivePath(last.id) \in DOMAIN store
  /\ store[ActivePath(last.id)].status = FOLDER_STATUS_ACTIVE
  /\ SilentPath(last.id) \notin DOMAIN store

ChecksumValid(doc) ==
  /\ doc.checksum # NoChecksum
  /\ doc.checksum = generateChecksum([doc EXCEPT !.checksum = NoChecksum])

\* C10: every folder, email and version document in the store carries the
\* checksum of itself with the checksum field cleared.
C10_StoredChecksumsValid ==
  \A p \in DOMAIN store :
    store[p].kind \in {"folder", "email", "version"} => ChecksumValid(store[p])

----------------------------------------------------------------------------
(* The approval specification: checkFolderApproval as a function of the    *)
(* repository.  The repository holds one folder as createFolder stores it  *)
(* (id 1, share token 2) and up to MaxEmails emails of that folder as      *)
(* saveEmail stores them; versions are added by createEmailVersion.        *)

SilentStore ==
  Put(Put(EmptyStore, SilentPath(1), folderMetadata(1, 1, 0, PBKDF2(1, 1), 1)),
      LinkPath(2), linkMetadata(2, 1, 1, 0))

InitApproval ==
  /\ \E n \in 0..MaxEmails : store = WithEmails(SilentStore, n)
  /\ now = 0
  /\ nextId = 3
  /\ last = Result("none", 0, 0, "none")
  /\ IdleExcept("life")

NextApproval ==
  \/ \E id \in FolderIds : checkFolderApproval(id)
  \/ \E id \in FolderIds : handleInteraction(id)
  \/ \E p \in DOMAIN store, a \in {"increment", "decrement"} :
        p[1] = "emails" /\ updateEmailLikes(p[2], p[3], a)
  \/ \E p \in DOMAIN store : p[1] = "emails" /\ createEmailVersion(p[2], p[3])
  \/ Tick

SpecApproval == InitApproval /\ [][NextApproval]_vars

InitMove ==
  /\ \E n \in 0..MaxEmails : store = WithEmails(SilentStore, n)
  /\ now = 0
  /\ nextId = 3
  /\ last = Result("none", 0, 0, "none")
  /\ IdleExcept("life")

NextMove ==
  \/ \E id \in FolderIds, net \in ApprovalNets : checkFolderApprovalNet(id, net)
  \/ Tick

SpecMove == InitMove /\ [][NextMove]_vars

\* The interaction count as specified: the emails of the folder, the likes
\* on them, and the versions of them.
SpecifiedInteractions(s, fid) ==
  LET emails == EmailPathsOf(s, fid)
  IN Cardinality(emails) + SumLikes(s, emails)
       + Cardinality(VersionsOfEmails(s, fid, emails))

Activated(s, id) ==
  /\ ActivePath(id) \in DOMAIN s
  /\ s[ActivePath(id)].status = FOLDER_STATUS_ACTIVE
  /\ SilentPath(id) \notin DOMAIN s

StoredSilent(s, id) ==
  /\ SilentPath(id) \in DOMAIN s
  /\ LoadData(s, SilentPath(id)).res = "ok"
  /\ s[SilentPath(id)].status = FOLDER_STATUS_SILENT

\* C8: a checkFolderApproval on a folder stored silent by createFolder that
\* has MIN_INTERACTIONS (5) emails stores it active at the active path,
\* removes the silent copy and returns the active folder.
C8_FiveEmailsApprove ==
  [][ \A id \in AllIds :
        (/\ checkFolderApproval(id)
         /\ StoredSilent(store, id)
         /\ Cardinality(EmailPathsOf(store, id)) >= MIN_INTERACTIONS)
        => (Activated(store', id) /\ last'.res = "active")
    ]_vars

----------------------------------------------------------------------------
(* Claims about concurrent writers (SpecSave).                             *)

SaveDataWriter(w) == wr[w].op \in {"saveData", "updateEmailLikes"}

\* No request of writer w failed on the network.
NoTimeouts(w) == wr[w].res # "timeout" /\ wr[w].putTimeouts = 0

\* C1: two concurrent updateEmailLikes increments on an email stored with
\* likes = 0 both succeed, and the stored likes end at 2.
C1_BothIncrementsCount ==
  ( /\ file.exists /\ file.doc.kind = "email"
    /\ \A w \in Writers : /\ wr[w].op = "updateEmailLikes"
                          /\ wr[w].act = "increment"
                          /\ wr[w].pc = "done"
                          /\ NoTimeouts(w) )
  => /\ \A w \in Writers : wr[w].res = "ok"
     /\ file.doc.likes = 2

\* C2: of two saveData writers that loaded the same stored version, one
\* write succeeds and the other fails with Conflict; never do both succeed.
C2_OneWinsOtherConflicts ==
  ( /\ \A w \in Writers : SaveDataWriter(w) /\ wr[w].pc = "done" /\ NoTimeouts(w)
    /\ wr[1].sha # NoSha
    /\ wr[1].sha = wr[2].sha )
  => \E w \in Writers, v \in Writers :
        w # v /\ wr[w].res = "ok" /\ wr[v].res = "conflict"

C4_RetryNeverResendsRefusedToken ==
  \A w \in Writers : ~wr[w].resent

----------------------------------------------------------------------------
(* Claims about the read operations (SpecRead).                            *)

\* The stored checksum of the document at p does not match its content.
Corrupt(s, p) == LoadData(s, p).res = "integrity"

\* C11: a read operation that meets a stored document whose checksum does
\* not match its content fails with an integrity error; the document is
\* neither returned nor skipped.
C11_CorruptDocumentFailsRead ==
  [][ /\ \A p \in DOMAIN store :
           (loadData(p) /\ Corrupt(store, p)) => read'.res = "integrity"
      /\ \A id \in AllIds :
           (loadEmailsOp(id) /\ \E p \in EmailPathsOf(store, id) : Corrupt(store, p))
             => read'.res = "integrity"
      /\ \A all \in BOOLEAN :
           ( /\ loadFolders(all)
             /\ \E p \in FolderPaths(store, "folders")
                         \cup (IF all THEN FolderPaths(store, "silent") ELSE {}) :
                   Corrupt(store, p) )
             => read'.res = "integrity"
      /\ \A p \in DOMAIN store :
           ( /\ p[1] = "emails"
             /\ loadEmailVersions(p[2], p[3])
             /\ \E q \in VersionPathsOf(store, p[2]) : Corrupt(store, q) )
             => read'.res = "integrity"
    ]_vars


----------------------------------------------------------------------------
(* Claims about rate limiting and the blacklist (SpecRate).                *)

\* The quota of (ip, action) is used up at this moment.
Exhausted(ip, a) ==
  Len(RecentRequests(Requests(Key(ip, a)), rtime, RATE_LIMITS[a].window)) >= RATE_LIMITS[a].max

\* C12 as written: a checkRateLimit call is allowed exactly when fewer than
\* max earlier allowed calls of its key lie within the last window.
C12_AllowedExactlyWithinQuota ==
  [][ \A ip \in IPs, a \in Actions :
        checkRateLimit(ip, a) =>
          (rate'.res = "true" <=> Len(allowedLog[Key(ip, a)]) < RATE_LIMITS[a].max)
    ]_vars

\* C12, amended: the same for an ip that is not in blacklistedIPs; a call
\* from a blacklisted ip is refused whatever its quota.
C12_AllowedExactlyWithinQuotaUnlessBlacklisted ==
  [][ \A ip \in IPs, a \in Actions :
        checkRateLimit(ip, a) =>
          IF ip \in blacklistedIPs THEN rate'.res # "true"
          ELSE (rate'.res = "true" <=> Len(allowedLog[Key(ip, a)]) < RATE_LIMITS[a].max)
    ]_vars

\* The call after max allowed calls inside one window has been refused.
C12_Witness ==
  \E ip \in IPs, a \in Actions :
    /\ rate.op = "checkRateLimit" /\ rate.ip = ip /\ rate.res # "true"
    /\ ip \notin blacklistedIPs
    /\ Len(allowedLog[Key(ip, a)]) = RATE_LIMITS[a].max

\* C13: a call refused because the quota is used up returns false, and a
\* record keyed by the hash of the ip is then stored under data/maliciousips.
C13_DenialReturnsFalseAndFlags ==
  [][ \A ip \in IPs, a \in Actions :
        (checkRateLimit(ip, a) /\ ip \notin blacklistedIPs /\ Exhausted(ip, a))
          => (rate'.res = "false" /\ IpHash(ip) \in DOMAIN malicious')
    ]_vars

\* C14: the third report within TIME_WINDOW puts the hash of the ip into the
\* persisted blacklist, and while it is there every checkRateLimit call of
\* that ip is refused.
C14_BlacklistedAlwaysDenied ==
  [][ \A ip \in IPs :
        /\ ( /\ addToBlacklist(ip)
             /\ Len(RecentReports(Append(blacklist.pendingReports[ip], rtime), rtime))
                  >= REPORTS_THRESHOLD )
             => IpHash(ip) \in blacklist'.ips
        /\ \A a \in Actions :
             (checkRateLimit(ip, a) /\ IpHash(ip) \in blacklist.ips)
               => rate'.res # "true"
    ]_vars


----------------------------------------------------------------------------
(* Claims about the request limiter (SpecGate).                            *)

Executing == {t \in Tasks : gpc[t] = "running"}

\* C15: never more than maxConcurrent tasks execute at the same time.
C15_AtMostMaxConcurrent == Cardinality(Executing) <= maxConcurrent

\* C16: a call that had to queue never starts after a call that arrived
\* later than it: while it waits, no call made after it has started.
C16_QueuedStartInArrivalOrder ==
  \A i \in 1..Len(arrived), j \in 1..Len(arrived) :
    ( /\ i < j
      /\ gpc[arrived[i]] \in {"waiting", "woken"} )
    => \A k \in 1..Len(started) : started[k] # arrived[j]


----------------------------------------------------------------------------
(* Claims about the directory manager (SpecDir).                           *)

\* The creations of directory d that have started and not yet settled.
ActiveCreations(d) ==
  {id \in Creations : id[2] = d /\ cr[id].step \in {"check", "parent", "write"}}

\* C17: of the overlapping createDirectory calls for one path only the first
\* runs the existence check and the marker write; the others receive the
\* outcome of that creation, and the marker is created at most once.
C17_CreateDirectoryDeduplicated ==
  /\ \A d \in Dirs : Cardinality(ActiveCreations(d)) <= 1
  /\ \A d \in Dirs : markers[d] <= 1
  /\ \A c \in Callers :
       call[c].joined =>
         /\ cr[<<c, call[c].path>>].step = "none"
         /\ call[c].on[1] # c
         /\ call[c].pc = "done" => call[c].res = cr[call[c].on].step

C17_Witness ==
  \E c \in Callers, b \in Callers :
    /\ c # b
    /\ call[c].pc = "done" /\ call[b].pc = "done"
    /\ call[c].path = call[b].path
    /\ call[b].joined /\ call[b].on = <<c, call[c].path>>
    /\ call[b].res = "true" /\ call[c].res = "true"
    /\ markers[call[c].path] = 1


----------------------------------------------------------------------------
(* Claims about ensureDirectoryExists (FairSpecEnsure).                    *)

\* C18: ensureDirectoryExists called for a path the backend reports as
\* missing terminates, with the directory (its .gitkeep) created at path.
C18_EnsureMissingTerminates ==
  \A path \in EnsurePaths :
    (ens.path = path /\ ens.res = "none" /\ path \notin edirs /\ path \notin blobs)
      ~> (ens.res # "none" /\ (ens.res = "true" => path \in edirs))


----------------------------------------------------------------------------
(* Claims about deleteFolder, request by request (SpecDelete).             *)

\* C19: after deleteFolder returns successfully, no email, attachment or
\* email-version document of the folder remains in the store, and the folder
\* document is at neither the silent nor the active path.
C19_DeletedFolderLeavesNothing ==
  del.res = "true" =>
    /\ EmailPathsOf(store, del.id) = {}
    /\ AttachmentPathsOf(store, del.id) = {}
    /\ VersionPathsOf(store, del.id) = {}
    /\ SilentPath(del.id) \notin DOMAIN store
    /\ ActivePath(del.id) \notin DOMAIN store

\* C20: once the folder document is deleted, deleteFolder returns success
\* even when reading or deleting a share-link document fails; and when none
\* fails, no share-link document that names the folder remains.
C20_LinkCleanUpBestEffort ==
  [][ (\E net \in GetNet : CleanUpLinks(net))
        => /\ del'.res = "true"
           /\ (~del'.linkErrors => LinkPathsOf(store', del.id) = {}) ]_vars

\* deleteFolder returned success although a share link of the folder could
\* not be deleted and is still stored.
C20_Witness ==
  /\ del.res = "true"
  /\ del.linkErrors
  /\ LinkPathsOf(store, del.id) # {}

\* deleteFolder returned success, and the share link of folder 1 is gone.
C20_LinkGone ==
  /\ del.res = "true"
  /\ ~del.linkErrors
  /\ del.id = 1
  /\ LinkPath(2) \notin DOMAIN store


----------------------------------------------------------------------------
(* Claims about createFolder and the share token (SpecShare).              *)

IsHex(s) == \A i \in 1..Len(s) : s[i] \in 0..15

\* C21: after createFolder succeeds it has returned an admin password of 20
\* characters and a share token of 32 hexadecimal characters, and
\* loadFolderByShareToken(token) on the folder as created returns it with the
\* same name and a shareMetadata whose createdAt is the folder's createdAt.
C21_CreatedFolderLoadsByToken ==
  (cf.res = "ok" /\ FolderFile(cf.id) \in DOMAIN repo) =>
    /\ Len(cf.adminPassword) = PASSWORD_LENGTH
    /\ Len(cf.shareToken) = TOKEN_LENGTH
    /\ IsHex(cf.shareToken)
    /\ LET r == SharedFolder(repo, cf.shareToken)
       IN /\ r.res = "ok"
          /\ r.name = cf.name
          /\ r.createdAt = cf.createdAt
          /\ r.shareCreatedAt = cf.createdAt

\* The folder was loaded through its token after a creation whose share link
\* was written later than the folder.
C21_Witness ==
  /\ cf.res = "ok"
  /\ FolderFile(cf.id) \in DOMAIN repo
  /\ shared.res = "ok"
  /\ shared.shareCreatedAt = cf.createdAt
  /\ repo[LinkFile(cf.shareToken)].createdAt # cf.createdAt

----------------------------------------------------------------------------
(* Further claims about the lifecycle operations (Spec).                   *)

\* C23: updateEmailLikes on a stored email with n likes succeeds, without a
\* password, and stores n + 1 for 'increment' and max(0, n - 1) otherwise;
\* no stored likes value is ever negative.
C23_LikesUpdateSucceeds ==
  [][ \A p \in DOMAIN store, a \in {"increment", "decrement"} :
        (p[1] = "emails" /\ updateEmailLikes(p[2], p[3], a))
          => /\ last'.res = "ok"
             /\ p \in DOMAIN store'
             /\ store'[p].likes = IF a = "increment" THEN store[p].likes + 1
                                  ELSE IF store[p].likes > 0 THEN store[p].likes - 1 ELSE 0
             /\ \A q \in DOMAIN store' : store'[q].likes >= 0 ]_vars

----------------------------------------------------------------------------
(* Claims about versions (SpecVersions).                                   *)

EmailVersionsOf(s, emailId) ==
  {p \in DOMAIN s : p[1] = "versions" /\ s[p].orig = emailId}
CountryVersionsOf(s, folderId) ==
  {p \in DOMAIN s : p[1] = "cversions" /\ p[2] = folderId}

\* C24: an email version, or a country-folder version, created when k
\* versions of the same original are stored gets version number k + 1.
C24_VersionNumberIsCountPlusOne ==
  [][ /\ \A p \in DOMAIN store :
           (p[1] = "emails" /\ createEmailVersion(p[2], p[3]) /\ last'.res = "ok")
             => \A q \in EmailVersionsOf(store', p[3]) \ EmailVersionsOf(store, p[3]) :
                  store'[q].version = Cardinality(EmailVersionsOf(store, p[3])) + 1
      /\ \A net \in GetNet :
           (createCountryFolderVersion(1, net) /\ last'.res = "ok")
             => \A q \in CountryVersionsOf(store', 1) \ CountryVersionsOf(store, 1) :
                  store'[q].version = Cardinality(CountryVersionsOf(store, 1)) + 1 ]_vars

\* The part of C24 about email versions.
C24_EmailVersions ==
  [][ \A p \in DOMAIN store :
        (p[1] = "emails" /\ createEmailVersion(p[2], p[3]) /\ last'.res = "ok")
          => \A q \in EmailVersionsOf(store', p[3]) \ EmailVersionsOf(store, p[3]) :
               store'[q].version = Cardinality(EmailVersionsOf(store, p[3])) + 1 ]_vars

\* The part of C24 about country-folder versions, when the listing is answered.
C24_CountryVersionsWhenListed ==
  [][ (createCountryFolderVersion(1, "answer") /\ last'.res = "ok")
        => \A q \in CountryVersionsOf(store', 1) \ CountryVersionsOf(store, 1) :
             store'[q].version = Cardinality(CountryVersionsOf(store, 1)) + 1 ]_vars

\* Two versions of one email carry the same number.
C24_TwoVersionsSameNumber ==
  \E q1, q2 \in DOMAIN store :
    /\ q1 # q2
    /\ q1[1] = "versions" /\ q2[1] = "versions"
    /\ store[q1].orig = store[q2].orig
    /\ store[q1].version = store[q2].version

----------------------------------------------------------------------------
(* Further claims about the read operations (SpecRead).                    *)

\* C25: loadData returns null for a missing path; loadFolders(includeAll)
\* never fails because a directory is missing, and when every stored folder
\* loads it returns exactly the folders of the active directory and, with
\* includeAll, of the silent directory, whichever of the two exist.
C25_ReadsAbsorbNotFound ==
  [][ /\ \A p \in DOMAIN store \cup {MissingPath} :
           (loadData(p) /\ p \notin DOMAIN store) => read'.res = "null"
      /\ \A all \in BOOLEAN :
           ( /\ loadFolders(all)
             /\ \A p \in FolderPaths(store, "folders") \cup FolderPaths(store, "silent") :
                  LoadData(store, p).res = "ok" )
             => /\ read'.res = "ok"
                /\ read'.docs = FolderPaths(store, "folders")
                                  \cup (IF all THEN FolderPaths(store, "silent") ELSE {}) ]_vars

\* The part of C25 about loadData.
C25_LoadDataNullWhenMissing ==
  [][ \A p \in DOMAIN store \cup {MissingPath} :
        (loadData(p) /\ p \notin DOMAIN store) => read'.res = "null" ]_vars

\* loadFolders never fails because a directory is missing.
C25_MissingDirectoryNoError ==
  [][ \A all \in BOOLEAN :
        ( /\ loadFolders(all)
          /\ \A p \in FolderPaths(store, "folders") \cup FolderPaths(store, "silent") :
               LoadData(store, p).res = "ok" )
          => read'.res = "ok" ]_vars

----------------------------------------------------------------------------
(* Claims about deleteFile (SpecFile).                                     *)

\* C26: deleteFile on a path that does not exist, or whose file disappears
\* between the read of its sha and the DELETE, completes without error and
\* leaves the store as it was; so a second deleteFile on the path changes
\* nothing.
C26_DeleteFileIdempotent ==
  [][ \A d \in Deleters :
        /\ (DeleteFilePeek(d, "answer") /\ ~dfile.exists)
             => (df'[d].pc = "done" /\ df'[d].res = "ok" /\ dfile' = dfile)
        /\ (DeleteFileDelete(d, "answer") /\ ~dfile.exists)
             => (df'[d].res = "ok" /\ dfile' = dfile) ]_vars

\* A call read the sha of the file, then found it gone, and completed.
C26_Witness ==
  \E d \in Deleters :
    /\ df[d].pc = "done"
    /\ df[d].sha # NoSha
    /\ df[d].status = "404"
    /\ df[d].res = "ok"
    /\ ~dfile.exists

----------------------------------------------------------------------------
(* Claims about PasswordManager (SpecPw).                                  *)

\* A step of one of PasswordManager's operations.
PwOperation ==
  \/ \E k \in PwKeys, password \in {0} \cup Passwords, answer \in BOOLEAN,
        salt1 \in SaltSamples, salt2 \in SaltSamples :
        savePassword(k, password, answer, salt1, salt2)
  \/ \E k \in PwKeys, salt \in SaltSamples : getPassword(k, salt)
  \/ \E k \in PwKeys, password \in Passwords : verifyPasswordOp(k, password)
  \/ \E k \in PwKeys : hasPassword(k)
  \/ \E k \in PwKeys, salt \in SaltSamples : removePassword(k, salt)
  \/ clearAll

DigestMismatch(l) == l.blob.present /\ l.checksum # PwDigest(l.blob)

\* C27: after every write of PasswordManager the stored digest is that of the
\* stored blob; and with a digest that does not match the blob, getPassword
\* returns null, verifyPassword false and hasPassword false for every entry.
C27_DigestWrittenAndVerified ==
  /\ [][ (PwOperation /\ ls'.blob # ls.blob) => ls'.checksum = PwDigest(ls'.blob) ]_vars
  /\ [](DigestMismatch(ls) =>
          \A k \in PwKeys :
            /\ GetPassword(ls, k) = 0
            /\ ~HasPassword(ls, k)
            /\ \A password \in Passwords : ~VerifyPassword(ls, k, password))

\* The digest was damaged after a password was saved, and a read answered.
C27_Witness ==
  /\ DigestMismatch(ls)
  /\ 1 \in DOMAIN ls.blob.text
  /\ pwres.op = "hasPassword"
  /\ pwres.res = "false"

\* C28: after savePassword(type, id, p) returned true, getPassword(type, id)
\* returns p, verifyPassword(type, id, p) is true and verifyPassword(type,
\* id, q) is false for every other q.
C28_SavedPasswordReadBack ==
  [][ \A k \in PwKeys, p \in Passwords :
        ( /\ \E answer \in BOOLEAN, salt1 \in SaltSamples, salt2 \in SaltSamples :
               savePassword(k, p, answer, salt1, salt2)
          /\ pwres'.res = "true" )
          => /\ GetPassword(ls', k) = p
             /\ VerifyPassword(ls', k, p)
             /\ \A q \in Passwords \ {p} : ~VerifyPassword(ls', k, q) ]_vars

\* The entries of the persisted cache that another device wrote.
ForeignEntries(l) ==
  IF ~l.blob.present THEN {}
  ELSE {k \in DOMAIN l.blob.text : l.blob.text[k].deviceId # l.deviceId}

\* C29: an entry whose deviceId is not the current device's answers no
\* getPassword, verifyPassword or hasPassword, and the read that meets it
\* removes it from the persisted cache.
C29_ForeignEntriesPurgedOnRead ==
  [][ \A k \in PwKeys :
        ( /\ \/ \E salt \in SaltSamples : getPassword(k, salt)
             \/ \E password \in Passwords : verifyPasswordOp(k, password)
             \/ hasPassword(k)
          /\ ~DigestMismatch(ls)
          /\ k \in ForeignEntries(ls) )
          => /\ pwres'.res \in {"null", "false"}
             /\ ForeignEntries(ls') = {} ]_vars

\* No entry of another device answers a read.
C29_ForeignEntriesNeverAnswer ==
  [][ \A k \in PwKeys :
        ( /\ \/ \E salt \in SaltSamples : getPassword(k, salt)
             \/ \E password \in Passwords : verifyPasswordOp(k, password)
             \/ hasPassword(k)
          /\ k \in ForeignEntries(ls) )
          => pwres'.res \in {"null", "false"} ]_vars

\* C30: the consent prompt is shown at most once until the preference is
\* cleared, only when no preference is stored, and its answer is stored;
\* after a refusal savePassword returns false and stores no password.
C30_ConsentAskedOnce ==
  /\ [](prompts <= 1)
  /\ [][ prompts' > prompts
           => /\ ls.pref = "null"
              /\ ls'.pref = (IF pwres'.res = "true" THEN "true" ELSE "false") ]_vars
  /\ [][ \A k \in PwKeys, password \in Passwords, answer \in BOOLEAN,
            salt1 \in SaltSamples, salt2 \in SaltSamples :
            (savePassword(k, password, answer, salt1, salt2) /\ ls.pref = "false")
              => (pwres'.res = "false" /\ ls' = ls /\ prompts' = prompts) ]_vars

\* The user refused, and a later savePassword was turned down unasked.
C30_Witness ==
  /\ ls.pref = "false"
  /\ prompts = 1
  /\ pwres.op = "savePassword"
  /\ pwres.key = 2
  /\ ~ls.blob.present

----------------------------------------------------------------------------
(* C31 *)

\* The entries of the cache as savePassword wrote them: the keys of the
\* blob whose digest matches, stored by this device.
CachedKeys(l) ==
  IF l.blob.present /\ l.checksum = PwDigest(l.blob)
  THEN {k \in DOMAIN l.blob.text : l.blob.text[k].deviceId = l.deviceId}
  ELSE {}

\* C31: killSwitch('all') calls the storage to delete every folder and
\* every email whose password is in the cache, and ends with the cache, its
\* digest and the consent preference removed; when every backend request
\* succeeds none of those folders and emails exists afterwards.
C31_KillSwitchAll ==
  [][\A nets \in [PwKeys -> {"ok", "fail"}] :
       killSwitch("all", 1, nets) =>
         /\ CachedKeys(ls) \subseteq tried'
         /\ ~ls'.blob.present /\ ls'.checksum = PwDigest(NoBlob) /\ ls'.pref = "null"
         /\ (\A k \in PwKeys : nets[k] = "ok") => remote' \cap CachedKeys(ls) = {}]_vars

\* The part of C31 about localStorage alone.
C31_LocalCacheWiped ==
  [][(\E nets \in [PwKeys -> {"ok", "fail"}] : killSwitch("all", 1, nets)) =>
       ~ls'.blob.present /\ ls'.checksum = PwDigest(NoBlob) /\ ls'.pref = "null"]_vars

\* killSwitch never calls the storage at all.
C31_NothingTried == tried = {} /\ remote = PwKeys

----------------------------------------------------------------------------
(* C32 *)

LargePng == [size |-> 6000000, type |-> "image/png"]

\* C32: saveEmail called with an attachment of 6,000,000 bytes of type
\* image/png fails with a validation error and writes no document, and
\* EmailForm.validateFile rejects the same file.
C32_LargeAttachmentRejected ==
  [][/\ (\E folderId \in FolderIds, pw \in Passwords, salt \in Salts :
           saveEmailWithAttachment(folderId, pw, salt, LargePng))
        => last'.res = "validation" /\ store' = store
     /\ handleAttachment(LargePng)
        => form'.error /\ form'.attachments = form.attachments]_vars

\* The part of C32 about the form.
C32_FormRejects ==
  [][handleAttachment(LargePng)
       => form'.error /\ form'.attachments = form.attachments]_vars

\* An email and its attachment of 6,000,000 bytes are stored.
C32_LargeAttachmentStored ==
  /\ attached = LargePng
  /\ last = Result("saveEmail", 1, 0, "ok")
  /\ AttachmentPathsOf(store, 1) # {}

----------------------------------------------------------------------------
(* C33 *)

\* C33: saveData onto a path holding a document whose stored checksum is
\* valid for its content goes on to the PUT; it ends with 'Data integrity
\* check failed' only when the checksum of the existing document does not
\* match its content.
C33_SaveOverValidDocumentProceeds ==
  [][\A w \in Writers :
       SaveDataGet(w, "answer") /\ file.exists =>
         /\ ChecksumValid(file.doc) => wr'[w].pc = "sd_put"
         /\ wr'[w].res = "integrity" =>
              file.doc.checksum # NoChecksum /\ ~ChecksumValid(file.doc)]_vars

\* The check saveData makes rejects every document that carries a checksum
\* loadData accepts.
C33_ValidDocumentRejected ==
  [][\A w \in Writers :
       SaveDataGet(w, "answer") /\ file.exists /\ ChecksumValid(file.doc)
         => wr'[w].pc = "done" /\ wr'[w].res = "integrity" /\ file' = file]_vars

----------------------------------------------------------------------------
(* C34 *)

\* C34: between checkFolderApproval calls, a folder that was created and
\* not deleted has its document at exactly one of the silent path and the
\* active path, also after a call that ended with an error.
C34_ExactlyOnePath ==
  (SilentPath(1) \in DOMAIN store) # (ActivePath(1) \in DOMAIN store)

\* The folder is never lost: it is stored at one of the two paths at least.
C34_AtLeastOnePath ==
  SilentPath(1) \in DOMAIN store \/ ActivePath(1) \in DOMAIN store

\* When every request is answered the folder is at exactly one path.
C34_ExactlyOnePathWhenAnswered ==
  [][\A id \in FolderIds :
       checkFolderApprovalNet(id, "ok") /\ C34_ExactlyOnePath => C34_ExactlyOnePath']_vars

\* A folder stored at both paths stays at both: the next approval ends in
\* saveData's integrity check.
C34_BothPathsStay ==
  [][~C34_ExactlyOnePath /\ C34_AtLeastOnePath => ~C34_ExactlyOnePath']_vars

----------------------------------------------------------------------------
(* C35 *)

----------------------------------------------------------------------------
(* C36 *)

\* C36: createFolder is all-or-nothing on the store: when it fails at any
\* step, the write of the share link included, no folder document created
\* by that call remains stored.
C36_CreateFolderAllOrNothing ==
  [][\A name \in ShareNames, targetEmail \in {<<>>, <<1>>}, allowed \in BOOLEAN,
        b \in ByteSamples, salt \in Salts, random \in {0, 1}, d \in {0, 1},
        net1 \in GetNet, net2 \in GetNet :
        createFolderFiles(name, targetEmail, allowed, b, salt, random, d, net1, net2)
          /\ cf'.res # "ok"
        => repo' = repo]_vars

\* So no folder is stored without a share link that leads to it.
C36_NoFolderWithoutLink ==
  \A p \in DOMAIN repo :
    p[1] = "silent" =>
      \E q \in DOMAIN repo : q[1] = "links" /\ repo[q].folderId = repo[p].id

\* A call that fails before the share link is written leaves nothing.
C36_EarlyFailureWritesNothing ==
  [][\A name \in ShareNames, targetEmail \in {<<>>, <<1>>}, allowed \in BOOLEAN,
        b \in ByteSamples, salt \in Salts, random \in {0, 1}, d \in {0, 1},
        net1 \in GetNet, net2 \in GetNet :
        createFolderFiles(name, targetEmail, allowed, b, salt, random, d, net1, net2)
          /\ (~allowed \/ name = <<>> \/ targetEmail = <<>> \/ net1 # "answer")
        => repo' = repo /\ cf'.res # "ok"]_vars

----------------------------------------------------------------------------
(* C37 *)

Started(t) == \E k \in 1..Len(started) : started[k] = t

\* C37: every call passed to runTask eventually starts, provided each
\* running task eventually settles; a task that fails releases its slot and
\* wakes the next queued call exactly as one that succeeds does.
C37_EveryCallStarts ==
  /\ \A t \in Tasks : (gpc[t] # "idle") ~> Started(t)
  /\ [][\A t \in Tasks :
          Fail(t) =>
            /\ running' = running - 1
            /\ IF queue = <<>> THEN queue' = queue /\ woken' = woken
               ELSE queue' = Tail(queue) /\ woken' = Append(woken, Head(queue))]_vars

\* A call waits in the queue while a running task fails.
C37_Witness ==
  \E t \in Tasks, u \in Tasks :
    /\ gpc[t] = "failed"
    /\ Started(u) /\ gpc[u] \in {"running", "done", "failed"}
    /\ \E i \in 1..Len(arrived) : arrived[i] = u /\ i > maxConcurrent

----------------------------------------------------------------------------
(* C38 *)

\* C38: a createFolder call rejected because name or targetEmail is missing
\* leaves the rate-limit record of its (ip, CREATE_FOLDER) key unchanged, so
\* invalid requests use up no quota.
C38_InvalidRequestUsesNoQuota ==
  [][\A ip \in IPs, name \in Names, targetEmail \in Names :
       createFolderEntry(ip, name, targetEmail) /\ adm'.res = "validation"
         => Requests(Key(ip, "CREATE_FOLDER"))' = Requests(Key(ip, "CREATE_FOLDER"))]_vars

\* Every call rejected for its input was recorded against the quota first.
C38_InvalidRequestRecorded ==
  [][\A ip \in IPs, name \in Names, targetEmail \in Names :
       createFolderEntry(ip, name, targetEmail) /\ adm'.res = "validation"
         => Requests(Key(ip, "CREATE_FOLDER"))' =
              Append(RecentRequests(Requests(Key(ip, "CREATE_FOLDER")), rtime,
                                    RATE_LIMITS["CREATE_FOLDER"].window), rtime)]_vars

----------------------------------------------------------------------------
(* C39 *)

\* The calls for path d that are between inProgress.add and inProgress.delete.
PollHolders(d) ==
  {<<c, i>> \in Callers \X (1..2) :
     /\ i <= Len(poll[c].stack)
     /\ poll[c].stack[i].path = d
     /\ poll[c].stack[i].pc \in {"check", "parent", "write", "throw"}}

\* C39: in the polling variant of createDirectory at most one call for a
\* given path is between its inProgress.add and its inProgress.delete,
\* however the callers waking from the poll interleave.
C39_OneCreationPerPath ==
  \A d \in Dirs :
    /\ Cardinality(PollHolders(d)) <= 1
    /\ PollHolders(d) # {} <=> d \in pInProgress

\* A call that had to wait holds the path while another still waits for it.
C39_Witness ==
  \E c \in Callers, b \in Callers, d \in Dirs :
    /\ c # b
    /\ \E i \in 1..Len(poll[c].stack) :
         /\ poll[c].stack[i].path = d /\ poll[c].stack[i].waited
         /\ poll[c].stack[i].pc \in {"check", "parent", "write"}
    /\ poll[b].st = "run" /\ PollTop(b).path = d /\ PollTop(b).pc = "poll"

====
